---- MODULE Spec2Model ----
(***************************************************************************)
(* go-nasr: Extract builds a SQLite database from a NASR subscription.     *)
(* The model follows Extract (nasr.go) through its phases: precondition    *)
(* checks, schema parsing, pragmas, CREATE TABLE, the per-table            *)
(* transactional CSV load (loader.go), unique-index creation with          *)
(* duplicate repair (deduplicateParents), the orphan pass (deleteOrphans)  *)
(* and the final PRAGMA foreign_key_check.                                 *)
(***************************************************************************)
EXTENDS Integers, Sequences, FiniteSets, TLC

VARIABLES
    inputExists,  \* os.Stat(nasrSubscription) succeeds
    output,       \* the destination path: "absent", "preexisting" or "database"
    pc,           \* position of Extract
    result,       \* what Extract returned, [status, msg, subject]
    tables,       \* parseSchemas' result: table name -> sequence of columnDef
    created,      \* tables that exist in the output database
    db,           \* committed rows: table name -> sequence of [rowid, vals]
    tx,           \* the open load transaction of loadCSV
    fileIdx,      \* position of loadAllCSVs in the archive's file list
    indexes,      \* names of the unique indexes that exist
    idxPos,       \* position of deduplicateParents in createIndexes
    log,          \* records written with log.Printf
    stmts,        \* statements executed against the output database
    metadata,     \* the inner zip's entries, as far as parseSchemas reads them
    call          \* a function applied on its own: its arguments and result

vars == <<inputExists, output, pc, result, tables, created, db, tx, fileIdx,
          indexes, idxPos, log, stmts, metadata, call>>

\* the state of a run of Extract
extractVars == <<inputExists, output, pc, result, tables, created, db, tx,
                 fileIdx, indexes, idxPos, log, stmts, metadata>>

-----------------------------------------------------------------------------
(* Bounds of the explored inputs *)

\* data records per stream of a table of the catalog
MaxRows == 2

\* data records per stream of any other table
MaxOtherRows == 1

\* records of a metadata stream
MaxRecords == 2

\* constraints of a catalog other than the built-in one
MaxConstraints == 3

\* bytes of a stream handed to normalizeCR
MaxBytes == 3

-----------------------------------------------------------------------------
(* Sequence helpers *)

Range(s) == {s[i] : i \in 1..Len(s)}

\* the elements of S as a sequence, ascending by the integer key rank[x]:
\* the i-th is the one with i - 1 elements of a smaller key
SeqOfSetBy(S, rank) ==
    [i \in 1..Cardinality(S) |->
        CHOOSE x \in S : Cardinality({y \in S : rank[y] < rank[x]}) = i - 1]

Prefix(s, n) == SubSeq(s, 1, n)

-----------------------------------------------------------------------------
(* The relationship catalog *)

FK(child, cols, parent) ==
    [childTable |-> child, columns |-> cols, parentTable |-> parent]

foreignKeyDefs == <<
    FK("APT_RWY", <<"SITE_NO">>, "APT_BASE"),
    FK("APT_RWY_END", <<"SITE_NO", "RWY_ID">>, "APT_RWY"),
    FK("APT_ARS", <<"SITE_NO", "RWY_ID", "RWY_END_ID">>, "APT_RWY_END"),
    FK("APT_ATT", <<"SITE_NO">>, "APT_BASE"),
    FK("APT_CON", <<"SITE_NO">>, "APT_BASE"),
    FK("APT_RMK", <<"SITE_NO">>, "APT_BASE"),
    FK("NAV_CKPT", <<"NAV_ID", "NAV_TYPE">>, "NAV_BASE"),
    FK("NAV_RMK", <<"NAV_ID", "NAV_TYPE">>, "NAV_BASE"),
    FK("FIX_CHRT", <<"FIX_ID", "ICAO_REGION_CODE">>, "FIX_BASE"),
    FK("FIX_NAV", <<"FIX_ID", "ICAO_REGION_CODE">>, "FIX_BASE"),
    FK("AWY_SEG_ALT", <<"AWY_ID">>, "AWY_BASE"),
    FK("ILS_GS", <<"SITE_NO", "RWY_END_ID", "ILS_LOC_ID">>, "ILS_BASE"),
    FK("ILS_DME", <<"SITE_NO", "RWY_END_ID", "ILS_LOC_ID">>, "ILS_BASE"),
    FK("ILS_MKR", <<"SITE_NO", "RWY_END_ID", "ILS_LOC_ID">>, "ILS_BASE"),
    FK("ILS_RMK", <<"SITE_NO", "RWY_END_ID", "ILS_LOC_ID">>, "ILS_BASE"),
    FK("ATC_SVC", <<"FACILITY_ID", "FACILITY_TYPE">>, "ATC_BASE"),
    FK("ATC_ATIS", <<"FACILITY_ID", "FACILITY_TYPE">>, "ATC_BASE"),
    FK("ATC_RMK", <<"FACILITY_ID", "FACILITY_TYPE">>, "ATC_BASE"),
    FK("STAR_APT", <<"STAR_COMPUTER_CODE">>, "STAR_BASE"),
    FK("STAR_RTE", <<"STAR_COMPUTER_CODE">>, "STAR_BASE"),
    FK("DP_APT", <<"DP_COMPUTER_CODE">>, "DP_BASE"),
    FK("DP_RTE", <<"DP_COMPUTER_CODE">>, "DP_BASE"),
    FK("HPF_SPD_ALT", <<"HP_NAME", "HP_NO">>, "HPF_BASE"),
    FK("HPF_CHRT", <<"HP_NAME", "HP_NO">>, "HPF_BASE"),
    FK("HPF_RMK", <<"HP_NAME", "HP_NO">>, "HPF_BASE"),
    FK("PFR_SEG", <<"ORIGIN_ID", "DSTN_ID", "PFR_TYPE_CODE", "ROUTE_NO">>, "PFR_BASE"),
    FK("MTR_PT", <<"ROUTE_TYPE_CODE", "ROUTE_ID">>, "MTR_BASE"),
    FK("MTR_AGY", <<"ROUTE_TYPE_CODE", "ROUTE_ID">>, "MTR_BASE"),
    FK("MTR_SOP", <<"ROUTE_TYPE_CODE", "ROUTE_ID">>, "MTR_BASE"),
    FK("MTR_TERR", <<"ROUTE_TYPE_CODE", "ROUTE_ID">>, "MTR_BASE"),
    FK("MTR_WDTH", <<"ROUTE_TYPE_CODE", "ROUTE_ID">>, "MTR_BASE"),
    FK("ARB_SEG", <<"LOCATION_ID">>, "ARB_BASE"),
    FK("WXL_SVC", <<"WEA_ID">>, "WXL_BASE"),
    FK("MAA_SHP", <<"MAA_ID">>, "MAA_BASE"),
    FK("MAA_RMK", <<"MAA_ID">>, "MAA_BASE"),
    FK("MAA_CON", <<"MAA_ID">>, "MAA_BASE"),
    FK("PJA_CON", <<"PJA_ID">>, "PJA_BASE"),
    FK("FSS_RMK", <<"FSS_ID">>, "FSS_BASE")
>>

\* every table name of the model in ascending byte order (Go's string order)
NameOrder == <<
    "APT_ARS", "APT_ATT", "APT_BASE", "APT_CON", "APT_RMK", "APT_RWY", "APT_RWY_END",
    "ARB_BASE", "ARB_SEG", "ATC_ATIS", "ATC_BASE", "ATC_RMK", "ATC_SVC", "AWOS",
    "AWY_BASE", "AWY_SEG_ALT", "DP_APT", "DP_BASE", "DP_RTE", "FIX_BASE", "FIX_CHRT",
    "FIX_NAV", "FSS_BASE", "FSS_RMK", "HPF_BASE", "HPF_CHRT", "HPF_RMK", "HPF_SPD_ALT",
    "ILS_BASE", "ILS_DME", "ILS_GS", "ILS_MKR", "ILS_RMK", "MAA_BASE", "MAA_CON",
    "MAA_RMK", "MAA_SHP", "MTR_AGY", "MTR_BASE", "MTR_PT", "MTR_SOP", "MTR_TERR",
    "MTR_WDTH", "NAV_BASE", "NAV_CKPT", "NAV_RMK", "PFR_BASE", "PFR_SEG", "PJA_BASE",
    "PJA_CON", "STAR_APT", "STAR_BASE", "STAR_RTE", "WXL_BASE", "WXL_SVC"
>>

\* the position of every name in that order
nameRank ==
    [n \in {NameOrder[i] : i \in 1..Len(NameOrder)} |->
        CHOOSE i \in 1..Len(NameOrder) : NameOrder[i] = n]

NameRank(n) == nameRank[n]

AllTables == Range(NameOrder)

ChildTables == {foreignKeyDefs[i].childTable : i \in 1..Len(foreignKeyDefs)}

ParentTables == {foreignKeyDefs[i].parentTable : i \in 1..Len(foreignKeyDefs)}

CatalogTables == ChildTables \cup ParentTables

-----------------------------------------------------------------------------
(* SQL values and value coercion (loader.go) *)

Null == [kind |-> "null", text |-> "", num |-> 0]

Text(s) == [kind |-> "text", text |-> s, num |-> 0]

Real(n) == [kind |-> "real", text |-> "", num |-> n]

\* strconv.ParseFloat(val, 64) on the strings of the model; the number is
\* kept in hundredths
ParseFloat(val) ==
    CASE val = "123.45" -> [ok |-> TRUE, f |-> 12345]
      [] val = "1"      -> [ok |-> TRUE, f |-> 100]
      [] val = "1.0"    -> [ok |-> TRUE, f |-> 100]
      [] OTHER          -> [ok |-> FALSE, f |-> 0]

\* a coercion that tests the empty string but not the column's nullability
convertValueEmptyIsNull(val, col) ==
    IF val = "" THEN Null
    ELSE IF col.dataType = "REAL" /\ ParseFloat(val).ok
         THEN Real(ParseFloat(val).f)
         ELSE Text(val)

convertValue(val, col) ==
    IF val = "" /\ col.nullable THEN Null
    ELSE IF col.dataType = "REAL" /\ val # ""
         THEN IF ParseFloat(val).ok THEN Real(ParseFloat(val).f) ELSE Text(val)
         ELSE Text(val)

\* vals of loadCSV: one value per schema column, NULL for a missing field
RowValues(row, columns) ==
    [i \in 1..Len(columns) |->
        IF i <= Len(row) THEN convertValue(row[i], columns[i]) ELSE Null]

-----------------------------------------------------------------------------
(* Schemas: the metadata of the archive, as parseSchemas returns it *)

columnDef(n, t, nl) == [name |-> n, dataType |-> t, nullable |-> nl]

\* the sentinel-null list: the (table, column) pairs whose data carries
\* "NOT ASSIGNED" in place of NULL
sentinelNulls == {<<"DP_BASE", "DP_COMPUTER_CODE">>}

\* a metadata field is a sequence of pieces, each a white-space character
\* or a run of other characters: <<" ", "Yes">> is the field " Yes"
WhiteSpace == {" ", "\t"}

RECURSIVE String(_)
\* the field as one string
String(tok) == IF Len(tok) = 0 THEN "" ELSE tok[1] \o String(Tail(tok))

RECURSIVE TrimLeft(_)
TrimLeft(tok) ==
    IF Len(tok) > 0 /\ tok[1] \in WhiteSpace THEN TrimLeft(Tail(tok)) ELSE tok

RECURSIVE TrimRight(_)
TrimRight(tok) ==
    IF Len(tok) > 0 /\ tok[Len(tok)] \in WhiteSpace
    THEN TrimRight(SubSeq(tok, 1, Len(tok) - 1))
    ELSE tok

\* strings.TrimSpace
TrimSpace(tok) == TrimRight(TrimLeft(tok))

\* strings.ReplaceAll(colName, " ", "_")
ReplaceSpaces(tok) == [i \in 1..Len(tok) |-> IF tok[i] = " " THEN "_" ELSE tok[i]]

\* a switch with a default case: any other type becomes TEXT
MapTypeOtherIsText(dataType) ==
    IF dataType = "NUMBER" THEN "REAL" ELSE "TEXT"

\* the switch on dataType
MapType(dataType) ==
    CASE dataType = "VARCHAR" -> "TEXT"
      [] dataType = "NUMBER"  -> "REAL"
      [] OTHER                -> dataType

\* the columnDef appended for a record of at least 5 fields
RecordColumn(record) ==
    columnDef(String(ReplaceSpaces(TrimSpace(record[2]))),
              MapType(String(TrimSpace(record[4]))),
              String(TrimSpace(record[5])) = "Yes")

\* ts.columns = append(ts.columns, col), the schema made when it is new
AppendColumn(tbls, tableName, col) ==
    IF tableName \in DOMAIN tbls
    THEN [tbls EXCEPT ![tableName] = Append(@, col)]
    ELSE (tableName :> <<col>>) @@ tbls

\* a record the csv reader returns: its fields, or an error when the record
\* does not split into fields
Record(fields) == [split |-> TRUE, fields |-> fields]

Unsplittable == [split |-> FALSE, fields |-> <<>>]

RECURSIVE ParseRecords(_, _)
\* the record loop of one stream
ParseRecords(records, tbls) ==
    IF Len(records) = 0 THEN [ok |-> TRUE, tables |-> tbls]
    ELSE IF ~records[1].split THEN [ok |-> FALSE, tables |-> tbls]
    ELSE IF Len(records[1].fields) < 5 THEN ParseRecords(Tail(records), tbls)
    ELSE ParseRecords(Tail(records),
                      AppendColumn(tbls,
                                   String(TrimSpace(records[1].fields[1])),
                                   RecordColumn(records[1].fields)))

\* what parseSchemas returns: the schemas and no error, or no schema and
\* the error with the name of the stream it is about
Parsed(tbls) == [err |-> "", stream |-> "", tables |-> tbls]

ParseError(err, stream) == [err |-> err, stream |-> stream, tables |-> <<>>]

RECURSIVE ParseStreams(_, _)
\* the loop over the archive's entries; an entry's fault is the step of
\* reading it that fails: "open", "read", "read header in" or none
ParseStreams(files, tbls) ==
    IF Len(files) = 0 THEN Parsed(tbls)
    ELSE IF ~files[1].structure THEN ParseStreams(Tail(files), tbls)
    ELSE IF files[1].fault # "" THEN ParseError(files[1].fault, files[1].name)
    ELSE LET r == ParseRecords(files[1].records, tbls)
         IN  IF r.ok THEN ParseStreams(Tail(files), r.tables)
             ELSE ParseError("parse", files[1].name)

\* an override loop that sets the flag of every column of a listed table
OverrideWholeTable(tbls) ==
    [t \in DOMAIN tbls |->
        [i \in 1..Len(tbls[t]) |->
            IF \E k \in sentinelNulls : k[1] = t
            THEN [tbls[t][i] EXCEPT !.nullable = TRUE]
            ELSE tbls[t][i]]]

\* the override loop over sentinelNulls
Override(tbls) ==
    [t \in DOMAIN tbls |->
        [i \in 1..Len(tbls[t]) |->
            IF <<t, tbls[t][i].name>> \in sentinelNulls
            THEN [tbls[t][i] EXCEPT !.nullable = TRUE]
            ELSE tbls[t][i]]]

parseSchemas(files) ==
    LET r == ParseStreams(files, <<>>)
    IN  IF r.err # "" THEN r ELSE Parsed(Override(r.tables))

\* the key columns the catalog names for a table (its parent key when it is
\* a parent, since that key contains the table's own child key)
KeyColumns(t) ==
    IF t \in ParentTables
    THEN LET i == CHOOSE j \in 1..Len(foreignKeyDefs) :
                     foreignKeyDefs[j].parentTable = t
         IN  foreignKeyDefs[i].columns
    ELSE IF t \in ChildTables
    THEN LET i == CHOOSE j \in 1..Len(foreignKeyDefs) :
                     foreignKeyDefs[j].childTable = t
         IN  foreignKeyDefs[i].columns
    ELSE <<"ASOS_AWOS_ID">>

\* the tables the archive's metadata describes: every parent of the catalog,
\* the children of the APT chain and a table outside the catalog
DescribedTables == ParentTables \cup {"APT_ARS", "AWOS"}

\* an entry of the archive that is a metadata stream
StructureFile(name, fault, records) ==
    [name |-> name, structure |-> TRUE, fault |-> fault, records |-> records]

\* any other entry
OtherFile(name) ==
    [name |-> name, structure |-> FALSE, fault |-> "", records |-> <<>>]

\* a metadata record of five fields
Meta(t, c, dataType, nl) == Record(<<t, c, <<"10">>, dataType, nl>>)

\* the records that describe the key columns of table t as VARCHAR
KeyRecords(t, nl) ==
    [i \in 1..Len(KeyColumns(t)) |->
        Meta(<<t>>, <<KeyColumns(t)[i]>>, <<"VARCHAR">>,
             IF nl THEN <<"Yes">> ELSE <<"No">>)]

RECURSIVE RecordsOf(_, _)
\* the records of the tables named, one table behind the other
RecordsOf(names, nl) ==
    IF Len(names) = 0 THEN <<>>
    ELSE KeyRecords(names[1], nl) \o RecordsOf(Tail(names), nl)

\* the tables of the APT stream
AptTables == {"APT_ARS", "APT_BASE", "APT_RWY", "APT_RWY_END"}

\* an archive: the APT metadata stream, which starts with a record of one
\* field, a data stream, and a metadata stream with the other described
\* tables; the tables of `missing` are not described
Archive(missing, nl) ==
    <<StructureFile("APT_CSV_DATA_STRUCTURE.csv", "",
          <<Record(<<<<"APT">>>>)>>
          \o RecordsOf(SelectSeq(NameOrder,
                LAMBDA n : n \in (DescribedTables \cap AptTables) \ missing), nl)),
      OtherFile("APT_BASE.csv"),
      StructureFile("NAV_CSV_DATA_STRUCTURE.csv", "",
          RecordsOf(SelectSeq(NameOrder,
                LAMBDA n : n \in (DescribedTables \ AptTables) \ missing), nl))>>

\* the archives whose metadata parses
SoundArchives == {Archive({}, TRUE), Archive({}, FALSE), Archive({"APT_RWY"}, FALSE)}

\* the archives a run of Extract is given: the sound ones, one whose second
\* metadata stream has no header, and one with a record that does not split
\* behind the records of the first stream
Archives ==
    SoundArchives
    \cup {[Archive({}, FALSE) EXCEPT ![3].fault = "read header in"],
          [Archive({}, FALSE) EXCEPT ![1].records = Append(@, Unsplittable)]}

\* the schema sets parseSchemas returns for them
MetadataChoices == {parseSchemas(a).tables : a \in SoundArchives}

ColIndex(columns, name) ==
    IF \E i \in 1..Len(columns) : columns[i].name = name
    THEN CHOOSE i \in 1..Len(columns) : columns[i].name = name
    ELSE 0

-----------------------------------------------------------------------------
(* DDL synthesis (generateDDL) and parseUniqueIndex *)

RECURSIVE Join(_, _)
\* strings.Join
Join(strs, sep) ==
    IF Len(strs) = 0 THEN ""
    ELSE IF Len(strs) = 1 THEN strs[1]
    ELSE strs[1] \o sep \o Join(Tail(strs), sep)

\* a statement is a sequence of tokens: a double-quoted identifier or bare text
Quoted(s) == [q |-> TRUE, s |-> s]

Bare(s) == [q |-> FALSE, s |-> s]

RECURSIVE QuotedList(_)
\* strings.Join(quotedCols, ", ")
QuotedList(cols) ==
    IF Len(cols) = 0 THEN <<>>
    ELSE IF Len(cols) = 1 THEN <<Quoted(cols[1])>>
    ELSE <<Quoted(cols[1]), Bare(",")>> \o QuotedList(Tail(cols))

parentKey(fk) == [table |-> fk.parentTable, columns |-> Join(fk.columns, ",")]

\* a collection that keeps every constraint
UniqueIndexesAll(fks, seen) == fks

RECURSIVE UniqueIndexes(_, _)
\* the first constraint of every distinct parentKey, in catalog order
UniqueIndexes(fks, seen) ==
    IF Len(fks) = 0 THEN <<>>
    ELSE IF parentKey(fks[1]) \in seen
         THEN UniqueIndexes(Tail(fks), seen)
         ELSE <<fks[1]>> \o UniqueIndexes(Tail(fks), seen \cup {parentKey(fks[1])})

\* sort.Slice on parentTable: the j-th constraint goes behind those of a
\* smaller parentTable and those of the same parentTable that stood before it
SortByParent(fks) ==
    LET Before(j) ==
            {k \in 1..Len(fks) :
                \/ NameRank(fks[k].parentTable) < NameRank(fks[j].parentTable)
                \/ /\ fks[k].parentTable = fks[j].parentTable
                   /\ k < j}
    IN  [i \in 1..Len(fks) |->
            fks[CHOOSE j \in 1..Len(fks) : Cardinality(Before(j)) = i - 1]]

IndexName(fk) == "idx_" \o fk.parentTable \o "_" \o Join(fk.columns, "_")

IndexStatement(fk) ==
    <<Bare("CREATE UNIQUE INDEX"), Quoted(IndexName(fk)), Bare("ON"),
      Quoted(fk.parentTable), Bare("(")>>
    \o QuotedList(fk.columns) \o <<Bare(")"), Bare(";")>>

\* fkMap[name]: the constraints whose child is the table, in catalog order
fkMap(fks, name) == SelectSeq(fks, LAMBDA fk : fk.childTable = name)

\* the "," behind an item, when it has one, and the end of its line
ItemEnd(comma) == (IF comma THEN <<Bare(",")>> ELSE <<>>) \o <<Bare("\n")>>

\* a comma rule that looks at the columns alone
ColumnCommaWithoutFks(i, ncols, nfks) == i < ncols

\* i < len(ts.columns)-1 || len(fkMap[name]) > 0, i counted from 1
ColumnComma(i, ncols, nfks) == i < ncols \/ nfks > 0

\* the line of column i of a schema
ColumnItem(ts, i, nfks) ==
    <<Quoted(ts[i].name), Bare(ts[i].dataType)>>
    \o (IF ~ts[i].nullable THEN <<Bare("NOT NULL")>> ELSE <<>>)
    \o ItemEnd(ColumnComma(i, Len(ts), nfks))

\* the line of the i-th constraint of a child table
ForeignKeyItem(own, i) ==
    <<Bare("FOREIGN KEY"), Bare("(")>> \o QuotedList(own[i].columns)
    \o <<Bare(")"), Bare("REFERENCES"), Quoted(own[i].parentTable), Bare("(")>>
    \o QuotedList(own[i].columns) \o <<Bare(")")>>
    \o ItemEnd(i < Len(own))

RECURSIVE ColumnLines(_, _, _)
\* for i, col := range ts.columns: the column lines from the i-th on
ColumnLines(ts, i, nfks) ==
    IF i > Len(ts) THEN <<>>
    ELSE ColumnItem(ts, i, nfks) \o ColumnLines(ts, i + 1, nfks)

RECURSIVE ForeignKeyLines(_, _)
\* for i, fk := range fkMap[name]: the constraint lines from the i-th on
ForeignKeyLines(own, i) ==
    IF i > Len(own) THEN <<>>
    ELSE ForeignKeyItem(own, i) \o ForeignKeyLines(own, i + 1)

\* the CREATE TABLE statement of one schema: the table it creates and its
\* text
TableStatement(ts, name, fks) ==
    LET own == fkMap(fks, name)
    IN  [table |-> name,
         text  |-> <<Bare("CREATE TABLE"), Quoted(name), Bare("("), Bare("\n")>>
                   \o ColumnLines(ts, 1, Len(own)) \o ForeignKeyLines(own, 1)
                   \o <<Bare(");")>>]

RECURSIVE TableStatementsOf(_, _, _)
\* createTables = append(createTables, b.String()) for each of names
TableStatementsOf(tbls, names, fks) ==
    IF Len(names) = 0 THEN <<>>
    ELSE <<TableStatement(tbls[names[1]], names[1], fks)>>
         \o TableStatementsOf(tbls, Tail(names), fks)

\* a generator that uses the names as the map hands them out
SortStringsSkipped(names) == names

\* sort.Strings(names), the names being distinct: the i-th is the one with
\* i - 1 smaller names
SortStrings(names) ==
    [i \in 1..Len(names) |->
        names[CHOOSE j \in 1..Len(names) :
                 Cardinality({k \in 1..Len(names) :
                                 NameRank(names[k]) < NameRank(names[j])}) = i - 1]]

\* for name := range tables: one of the orders the map may hand out
MapKeys(tbls) == SelectSeq(NameOrder, LAMBDA n : n \in DOMAIN tbls)

\* generateDDL's first result when the map hands out its names as `names`
TableStatementsOver(names, tbls, fks) ==
    TableStatementsOf(tbls, SortStrings(names), fks)

\* generateDDL's first result: one statement per schema
TableStatements(tbls, fks) == TableStatementsOver(MapKeys(tbls), tbls, fks)

RECURSIVE IndexStatementsOf(_)
\* createIndexes = append(createIndexes, stmt) for each of uniqueIndexes
IndexStatementsOf(uniq) ==
    IF Len(uniq) = 0 THEN <<>>
    ELSE <<IndexStatement(uniq[1])>> \o IndexStatementsOf(Tail(uniq))

\* generateDDL's second result: one statement per distinct parent key
IndexStatements(fks) == IndexStatementsOf(SortByParent(UniqueIndexes(fks, {})))

\* generateDDL when the map hands out its names as `names`
generateDDLOver(names, tbls, fks) ==
    [createTables  |-> TableStatementsOver(names, tbls, fks),
     createIndexes |-> IndexStatements(fks)]

generateDDL(tbls, fks) == generateDDLOver(MapKeys(tbls), tbls, fks)

\* createTables of Extract, for each of the metadata sets explored
createTables ==
    [tbls \in MetadataChoices |-> generateDDL(tbls, foreignKeyDefs).createTables]

\* createIndexes of Extract: it depends on the catalog alone
createIndexes == IndexStatements(foreignKeyDefs)

\* the columns between "(" and the first ")" after position p
RECURSIVE ColumnTokens(_, _)
ColumnTokens(stmt, p) ==
    IF p > Len(stmt) \/ stmt[p] = Bare(")") THEN <<>>
    ELSE IF stmt[p] = Bare(",") THEN ColumnTokens(stmt, p + 1)
    ELSE <<stmt[p].s>> \o ColumnTokens(stmt, p + 1)

\* uniqueIndexRe: ON "table" ( columns ), leftmost match
parseUniqueIndex(stmt) ==
    LET matches == {p \in 1..Len(stmt) :
                      /\ p + 3 <= Len(stmt)
                      /\ stmt[p] = Bare("ON")
                      /\ stmt[p + 1].q /\ stmt[p + 1].s # ""
                      /\ stmt[p + 2] = Bare("(")
                      /\ stmt[p + 3] # Bare(")")
                      /\ \E e \in (p + 4)..Len(stmt) : stmt[e] = Bare(")")}
    IN  IF matches = {}
        THEN [ok |-> FALSE, table |-> "", columns |-> <<>>]
        ELSE LET p == CHOOSE m \in matches : \A n \in matches : m <= n
             IN  [ok |-> TRUE, table |-> stmt[p + 1].s,
                  columns |-> ColumnTokens(stmt, p + 3)]


-----------------------------------------------------------------------------
(* The storage engine, as far as Extract relies on it *)

Rows(d, t) == IF t \in DOMAIN d THEN d[t] ELSE <<>>

\* the key of a row on the columns at positions idx
KeyAt(row, idx) == [i \in 1..Len(idx) |-> row.vals[idx[i]]]

HasNull(key) == \E i \in 1..Len(key) : key[i] = Null

\* positions of the named columns in a table's schema (0: no such column)
ColumnPositions(tbls, t, cols) ==
    [i \in 1..Len(cols) |-> ColIndex(tbls[t], cols[i])]

TableHasColumns(tbls, crt, t, cols) ==
    /\ t \in crt
    /\ \A i \in 1..Len(cols) : ColIndex(tbls[t], cols[i]) # 0

\* a UNIQUE index rejects two rows with the same key, NULLs being distinct
ViolatesUnique(rows, idx) ==
    \E i, j \in 1..Len(rows) :
        /\ i < j
        /\ ~HasNull(KeyAt(rows[i], idx))
        /\ KeyAt(rows[i], idx) = KeyAt(rows[j], idx)

\* CREATE UNIQUE INDEX name ON t (cols) fails
CreateIndexFails(d, tbls, crt, idxs, name, t, cols) ==
    \/ name \in idxs
    \/ ~TableHasColumns(tbls, crt, t, cols)
    \/ ViolatesUnique(Rows(d, t), ColumnPositions(tbls, t, cols))

\* INSERT rejects a NULL in a NOT NULL column
ViolatesNotNull(vals, columns) ==
    \E i \in 1..Len(columns) : ~columns[i].nullable /\ vals[i] = Null

\* rowids are handed out ascending: one more than the largest in the table
NextRowid(rows) == IF Len(rows) = 0 THEN 1 ELSE rows[Len(rows)].rowid + 1

AppendRows(rows, valss) ==
    rows \o [i \in 1..Len(valss) |->
                [rowid |-> NextRowid(rows) + i - 1, vals |-> valss[i]]]

\* DELETE FROM t WHERE rowid = rid
DeleteRow(d, t, rid) ==
    IF t \in DOMAIN d
    THEN [d EXCEPT ![t] = SelectSeq(d[t], LAMBDA r : r.rowid # rid)]
    ELSE d

RECURSIVE DeleteRows(_, _)
\* the DELETEs of a sequence of [table, rowid] in order
DeleteRows(d, dels) ==
    IF Len(dels) = 0 THEN d
    ELSE DeleteRows(DeleteRow(d, dels[1].table, dels[1].rowid), Tail(dels))

\* the rows of constraint fk's child that PRAGMA foreign_key_check reports:
\* the key has no NULL and no parent row carries it
ViolatingRows(d, tbls, crt, fk) ==
    IF fk.childTable \notin crt THEN <<>>
    ELSE LET cidx == ColumnPositions(tbls, fk.childTable, fk.columns)
             pidx == IF TableHasColumns(tbls, crt, fk.parentTable, fk.columns)
                     THEN ColumnPositions(tbls, fk.parentTable, fk.columns)
                     ELSE <<>>
             parent == IF pidx = <<>> THEN <<>> ELSE Rows(d, fk.parentTable)
         IN  SelectSeq(Rows(d, fk.childTable),
                LAMBDA r :
                    /\ ~HasNull(KeyAt(r, cidx))
                    /\ ~\E i \in 1..Len(parent) :
                           KeyAt(parent[i], pidx) = KeyAt(r, cidx))

\* the id of constraint i among the constraints of its child table
FkId(i) ==
    Cardinality({j \in 1..(i - 1) :
        foreignKeyDefs[j].childTable = foreignKeyDefs[i].childTable})

RECURSIVE ForeignKeyCheckOf(_, _, _, _)
ForeignKeyCheckOf(d, tbls, crt, ids) ==
    IF Len(ids) = 0 THEN <<>>
    ELSE LET fk   == foreignKeyDefs[ids[1]]
             rows == ViolatingRows(d, tbls, crt, fk)
         IN  [k \in 1..Len(rows) |->
                 [table |-> fk.childTable, rowid |-> rows[k].rowid,
                  parent |-> fk.parentTable, fkid |-> FkId(ids[1])]]
             \o ForeignKeyCheckOf(d, tbls, crt, Tail(ids))

\* the positions of the catalog's constraints, in order
ConstraintIds == [i \in 1..Len(foreignKeyDefs) |-> i]

\* PRAGMA foreign_key_check: one record per violating row and constraint
\* (a constraint whose child table holds no row reports nothing)
ForeignKeyCheck(d, tbls, crt) ==
    ForeignKeyCheckOf(d, tbls, crt,
        SelectSeq(ConstraintIds, LAMBDA i : foreignKeyDefs[i].childTable \in DOMAIN d))


-----------------------------------------------------------------------------
(* Duplicate repair: the queries and deletions of deduplicateParents *)

\* the order in which the engine compares text values of the model
TextOrder == <<"", "A">>

ValueRank(v) ==
    IF v = Null THEN 0
    ELSE 1 + (CHOOSE i \in 1..Len(TextOrder) : TextOrder[i] = v.text)

RECURSIVE KeyRank(_)
KeyRank(key) ==
    IF Len(key) = 0 THEN 0
    ELSE ValueRank(key[Len(key)]) + (Len(TextOrder) + 1) * KeyRank(Prefix(key, Len(key) - 1))

\* SELECT cols FROM t GROUP BY cols HAVING count(*) > 1: GROUP BY puts
\* NULLs in one group and returns the groups in key order
DuplicateKeys(rows, idx) ==
    LET keys == {KeyAt(rows[i], idx) : i \in 1..Len(rows)}
        dup  == {k \in keys :
                    Cardinality({i \in 1..Len(rows) : KeyAt(rows[i], idx) = k}) > 1}
    IN  SeqOfSetBy(dup, [k \in dup |-> KeyRank(k)])

\* SELECT rowid FROM t WHERE c1 = ? AND ... ORDER BY rowid: a NULL
\* parameter matches no row
RowidsOf(rows, idx, key) ==
    LET hit == SelectSeq(rows, LAMBDA r : ~HasNull(key) /\ KeyAt(r, idx) = key)
    IN  [i \in 1..Len(hit) |-> hit[i].rowid]

\* a pass that keeps the highest rowid of a group
VictimsButLast(rowids) == Prefix(rowids, Len(rowids) - 1)

\* a pass that deletes every row of a group
VictimsAll(rowids) == rowids

\* rowids[1:], the rows deleted of one group
Victims(rowids) == Tail(rowids)

\* the deletions of one group: none when fewer than two rowids come back
GroupDeletions(t, rowids, key) ==
    IF Len(rowids) < 2 THEN <<>>
    ELSE LET v == Victims(rowids)
         IN  [i \in 1..Len(v) |->
                 [table |-> t, kept |-> rowids[1], rowid |-> v[i], key |-> key]]

RECURSIVE DedupDeletions(_, _, _, _)
\* the deletions of the whole pass, group after group, each group's rowids
\* read from the table as the earlier deletions left it
DedupDeletions(d, t, idx, keys) ==
    IF Len(keys) = 0 THEN <<>>
    ELSE LET dels == GroupDeletions(t, RowidsOf(Rows(d, t), idx, keys[1]), keys[1])
         IN  dels \o DedupDeletions(DeleteRows(d, dels), t, idx, Tail(keys))

-----------------------------------------------------------------------------
(* Records of the run *)

Running == [status |-> "running", msg |-> "", subject |-> "", count |-> 0]

Success == [status |-> "ok", msg |-> "", subject |-> "", count |-> 0]

Error(msg, subject) ==
    [status |-> "error", msg |-> msg, subject |-> subject, count |-> 0]

\* a statement handed to the engine, and whether it succeeded
Stmt(op, t, rid, ok) == [op |-> op, table |-> t, rowid |-> rid, ok |-> ok]

DupLog(del) ==
    [kind |-> "duplicate", table |-> del.table, kept |-> del.kept,
     rowid |-> del.rowid, key |-> del.key, parent |-> ""]

OrphanLog(v) ==
    [kind |-> "orphan", table |-> v.table, kept |-> 0,
     rowid |-> v.rowid, key |-> <<>>, parent |-> v.parent]

RemainingLog(v) ==
    [kind |-> "remaining", table |-> v.table, kept |-> 0,
     rowid |-> v.rowid, key |-> <<>>, parent |-> v.parent]

\* a pass that writes a record only once the next deletion is under way
DupLogsLate(dels, n) == [i \in 1..(n - 1) |-> DupLog(dels[i])]

\* the log records of the first n deletions of a duplicate pass: each is
\* written before its DELETE is executed
DupLogs(dels, n) == [i \in 1..n |-> DupLog(dels[i])]

\* a pass that stops one violation short
OrphanVictimsButLast(violations) == Prefix(violations, Len(violations) - 1)

\* a pass that deletes by the parent's name instead of the child's
OrphanVictimsInParent(violations) ==
    [i \in 1..Len(violations) |-> [violations[i] EXCEPT !.table = violations[i].parent]]

\* the rows deleteOrphans deletes: every violation the check reported
OrphanVictims(violations) == violations

\* a failed retry that is passed over
RetryErrorSwallowed(name) == Success

\* the retry of an index statement fails: the error names the index
RetryError(name) == Error("deduplicate parents: create index after dedup", name)

\* a final check that tolerates one violation
VerdictOffByOne(fkViolations) ==
    IF fkViolations > 1
    THEN [Error("foreign key check failed", "") EXCEPT !.count = fkViolations]
    ELSE Success

\* the result of the final check, by the count of violations
Verdict(fkViolations) ==
    IF fkViolations > 0
    THEN [Error("foreign key check failed", "") EXCEPT !.count = fkViolations]
    ELSE Success

NoTx == [active |-> FALSE, table |-> "", hdr |-> 0, rows |-> <<>>, row |-> <<>>]

\* no function is applied on its own
NoCall == [fn |-> "none"]


-----------------------------------------------------------------------------
(* The archive's entries, in archive order *)

File(stem, csv, structure) == [stem |-> stem, csv |-> csv, structure |-> structure]

\* the inner zip: a metadata stream, a non-CSV entry, the data streams with
\* rows, and a data stream no metadata describes
Files == <<
    File("APT_CSV_DATA_STRUCTURE", TRUE, TRUE),
    File("README", FALSE, FALSE),
    File("APT_BASE", TRUE, FALSE),
    File("APT_RWY", TRUE, FALSE),
    File("APT_RWY_END", TRUE, FALSE),
    File("AWOS", TRUE, FALSE),
    File("FRQ", TRUE, FALSE)
>>

\* the raw field values a column's data takes: the first key column of
\* APT_RWY_END, child and parent at once, is empty in some records
FieldDomain(t, col) ==
    IF col = "SITE_NO" /\ t = "APT_RWY_END" THEN {"", "A"} ELSE {"A"}

\* the field counts of a stream's header: the schema's, or one less
HeaderFields(tbls, t) == {Len(tbls[t]) - 1, Len(tbls[t])} \ {0}

\* the number of data records explored for table t's stream
RowBound(t) == IF t \in CatalogTables THEN MaxRows ELSE MaxOtherRows

\* the records of c fields a stream of table t may hold
Records(tbls, t, c) ==
    {rec \in [1..c -> {"", "A"}] :
        \A i \in 1..c : rec[i] \in FieldDomain(t, tbls[t][i].name)}

-----------------------------------------------------------------------------
(* Extract *)

Init ==
    /\ inputExists \in BOOLEAN
    /\ output \in {"absent", "preexisting"}
    /\ pc = "stat"
    /\ result = Running
    /\ tables = <<>>
    /\ created = {}
    /\ db = <<>>
    /\ tx = NoTx
    /\ fileIdx = 1
    /\ indexes = {}
    /\ idxPos = 1
    /\ log = <<>>
    /\ stmts = <<>>
    /\ metadata \in Archives
    /\ call = NoCall

\* return err
Return(r) ==
    /\ pc' = "done"
    /\ result' = r

\* os.Stat(nasrSubscription) fails
StatInputError ==
    /\ pc = "stat"
    /\ ~inputExists
    /\ Return(Error("input file", "input"))
    /\ UNCHANGED <<call, metadata, inputExists, output, tables, created, db, tx, fileIdx,
                   indexes, idxPos, log, stmts>>

\* os.Stat(sqliteDatabase) succeeds
StatOutputError ==
    /\ pc = "stat"
    /\ inputExists
    /\ output # "absent"
    /\ Return(Error("output file already exists", "output"))
    /\ UNCHANGED <<call, metadata, inputExists, output, tables, created, db, tx, fileIdx,
                   indexes, idxPos, log, stmts>>

\* a run that does not look at the output path
StatOkAnyOutput ==
    /\ pc = "stat"
    /\ inputExists
    /\ pc' = "open"
    /\ UNCHANGED <<call, metadata, inputExists, output, result, tables, created, db, tx, fileIdx,
                   indexes, idxPos, log, stmts>>

\* both paths are as Extract needs them
StatOk ==
    /\ pc = "stat"
    /\ inputExists
    /\ output = "absent"
    /\ pc' = "open"
    /\ UNCHANGED <<call, metadata, inputExists, output, result, tables, created, db, tx, fileIdx,
                   indexes, idxPos, log, stmts>>

\* openInnerCSVZip fails on the archive
ArchiveError ==
    /\ pc = "open"
    /\ Return(Error("open inner CSV zip", "input"))
    /\ UNCHANGED <<call, metadata, inputExists, output, tables, created, db, tx,
                   fileIdx, indexes, idxPos, log, stmts>>

\* a run that goes on without schemas when parseSchemas returns an error
ParseSchemasErrorIgnored ==
    /\ pc = "open"
    /\ \E r \in {parseSchemas(metadata)} : r.err # ""
    /\ pc' = "pragma"
    /\ UNCHANGED <<call, metadata, inputExists, output, result, tables, created,
                   db, tx, fileIdx, indexes, idxPos, log, stmts>>

\* parseSchemas returns an error
ParseSchemasError ==
    /\ pc = "open"
    /\ \E r \in {parseSchemas(metadata)} :
          /\ r.err # ""
          /\ Return(Error("parse schemas", r.stream))
    /\ UNCHANGED <<call, metadata, inputExists, output, tables, created, db, tx,
                   fileIdx, indexes, idxPos, log, stmts>>

\* openInnerCSVZip and parseSchemas succeed
ParseSchemas ==
    /\ pc = "open"
    /\ \E r \in {parseSchemas(metadata)} :
          /\ r.err = ""
          /\ tables' = r.tables
    /\ pc' = "pragma"
    /\ UNCHANGED <<call, metadata, inputExists, output, result, created, db, tx,
                   fileIdx, indexes, idxPos, log, stmts>>

\* sql.Open and the two PRAGMAs; the first statement creates the file
Pragmas ==
    /\ pc = "pragma"
    /\ stmts' = stmts \o <<Stmt("journal_mode", "", 0, TRUE),
                           Stmt("synchronous", "", 0, TRUE)>>
    /\ output' = "database"
    /\ pc' = "create"
    /\ UNCHANGED <<call, metadata, inputExists, result, tables, created, db, tx, fileIdx,
                   indexes, idxPos, log>>

\* a PRAGMA fails; when it is the first, the file may or may not have been
\* created by opening the connection
PragmaError ==
    /\ pc = "pragma"
    /\ \/ /\ stmts' = stmts \o <<Stmt("journal_mode", "", 0, FALSE)>>
          /\ output' \in {"absent", "database"}
          /\ Return(Error("set journal_mode", "journal_mode"))
       \/ /\ stmts' = stmts \o <<Stmt("journal_mode", "", 0, TRUE),
                                 Stmt("synchronous", "", 0, FALSE)>>
          /\ output' = "database"
          /\ Return(Error("set synchronous", "synchronous"))
    /\ UNCHANGED <<call, metadata, inputExists, tables, created, db, tx, fileIdx,
                   indexes, idxPos, log>>

\* every CREATE TABLE statement succeeds
CreateTables ==
    /\ pc = "create"
    /\ \E ct \in {createTables[tables]} :
           /\ stmts' = stmts \o [i \in 1..Len(ct) |->
                                    Stmt("create_table", ct[i].table, 0, TRUE)]
           /\ created' = {ct[i].table : i \in 1..Len(ct)}
    /\ pc' = "load"
    /\ UNCHANGED <<call, metadata, inputExists, output, result, tables, db, tx, fileIdx,
                   indexes, idxPos, log>>

\* the k-th CREATE TABLE statement fails
CreateTableError ==
    /\ pc = "create"
    /\ \E ct \in {createTables[tables]} :
         \E k \in 1..Len(ct) :
            /\ stmts' = stmts
                 \o [i \in 1..(k - 1) |-> Stmt("create_table", ct[i].table, 0, TRUE)]
                 \o <<Stmt("create_table", ct[k].table, 0, FALSE)>>
            /\ created' = {ct[i].table : i \in 1..(k - 1)}
            /\ Return(Error("create table", ct[k].table))
    /\ UNCHANGED <<call, metadata, inputExists, output, tables, db, tx, fileIdx,
                   indexes, idxPos, log>>


-----------------------------------------------------------------------------
(* loadAllCSVs and loadCSV *)

\* the entry is no data stream of a known table: continue
Skipped(f) == ~f.csv \/ f.structure \/ f.stem \notin DOMAIN tables

LoadSkip ==
    /\ pc = "load"
    /\ fileIdx <= Len(Files)
    /\ Skipped(Files[fileIdx])
    /\ fileIdx' = fileIdx + 1
    /\ UNCHANGED <<call, metadata, inputExists, output, pc, result, tables, created, db, tx,
                   indexes, idxPos, log, stmts>>

\* db.Begin, tx.Prepare and the header record, which fixes the number of
\* fields csv.Reader demands of every later record
LoadBegin ==
    /\ pc = "load"
    /\ fileIdx <= Len(Files)
    /\ ~Skipped(Files[fileIdx])
    /\ LET t == Files[fileIdx].stem
       IN  \E h \in HeaderFields(tables, t) :
            /\ tx' = [active |-> TRUE, table |-> t, hdr |-> h,
                      rows |-> <<>>, row |-> <<>>]
            /\ stmts' = stmts \o <<Stmt("begin", t, 0, TRUE)>>
    /\ pc' = "loading"
    /\ UNCHANGED <<call, metadata, inputExists, output, result, tables, created, db, fileIdx,
                   indexes, idxPos, log>>

\* the entry cannot be opened, the transaction cannot begin, or the stream
\* has no header record
LoadBeginError ==
    /\ pc = "load"
    /\ fileIdx <= Len(Files)
    /\ ~Skipped(Files[fileIdx])
    /\ LET t == Files[fileIdx].stem
       IN  \/ /\ stmts' = stmts
              /\ Return(Error("load CSVs: open failed", t))
           \/ /\ stmts' = stmts \o <<Stmt("begin", t, 0, FALSE)>>
              /\ Return(Error("load CSVs: begin failed", t))
           \/ /\ stmts' = stmts \o <<Stmt("begin", t, 0, TRUE),
                                     Stmt("rollback", t, 0, TRUE)>>
              /\ Return(Error("load CSVs: EOF", t))
    /\ UNCHANGED <<call, metadata, inputExists, output, tables, created, db, tx, fileIdx,
                   indexes, idxPos, log>>

\* cr.Read returns a record of the demanded field count and the INSERT
\* succeeds
LoadRow ==
    /\ pc = "loading"
    /\ Len(tx.rows) < RowBound(tx.table)
    /\ \E row \in Records(tables, tx.table, tx.hdr) :
          LET vals == RowValues(row, tables[tx.table])
          IN  /\ ~ViolatesNotNull(vals, tables[tx.table])
              /\ tx' = [tx EXCEPT !.rows = Append(@, vals), !.row = row]
              /\ stmts' = stmts \o <<Stmt("insert", tx.table, 0, TRUE)>>
    /\ UNCHANGED <<call, metadata, inputExists, output, pc, result, tables, created, db, fileIdx,
                   indexes, idxPos, log>>

\* return err without the rollback: the rows inserted so far stay
ReturnWithoutRollback(row, cause) ==
    /\ db' = [t \in DOMAIN db \cup {tx.table} |->
                IF t = tx.table THEN AppendRows(Rows(db, t), tx.rows) ELSE db[t]]
    /\ tx' = [NoTx EXCEPT !.table = tx.table, !.hdr = tx.hdr, !.row = row]
    /\ Return(Error("load CSVs: " \o cause, tx.table))

\* return err with the deferred tx.Rollback: the rows inserted so far are gone
Rollback(row, cause) ==
    /\ db' = db
    /\ tx' = [NoTx EXCEPT !.table = tx.table, !.hdr = tx.hdr, !.row = row]
    /\ Return(Error("load CSVs: " \o cause, tx.table))

\* cr.Read returns csv.ErrFieldCount: the record's field count differs from
\* the header's
LoadFieldCountError ==
    /\ pc = "loading"
    /\ Len(tx.rows) < RowBound(tx.table)
    /\ \E c \in 1..Len(tables[tx.table]) :
          /\ c # tx.hdr
          /\ \E row \in Records(tables, tx.table, c) :
                Rollback(row, "wrong number of fields")
    /\ stmts' = stmts \o <<Stmt("rollback", tx.table, 0, TRUE)>>
    /\ UNCHANGED <<call, metadata, inputExists, output, tables, created, fileIdx,
                   indexes, idxPos, log>>

\* stmt.Exec fails: a NULL for a NOT NULL column
LoadInsertError ==
    /\ pc = "loading"
    /\ Len(tx.rows) < RowBound(tx.table)
    /\ \E row \in Records(tables, tx.table, tx.hdr) :
          /\ ViolatesNotNull(RowValues(row, tables[tx.table]), tables[tx.table])
          /\ Rollback(row, "NOT NULL constraint failed")
    /\ stmts' = stmts \o <<Stmt("insert", tx.table, 0, FALSE),
                           Stmt("rollback", tx.table, 0, TRUE)>>
    /\ UNCHANGED <<call, metadata, inputExists, output, tables, created, fileIdx,
                   indexes, idxPos, log>>

\* io.EOF and tx.Commit
LoadCommit ==
    /\ pc = "loading"
    /\ db' = [t \in DOMAIN db \cup {tx.table} |->
                IF t = tx.table THEN AppendRows(Rows(db, t), tx.rows) ELSE db[t]]
    /\ tx' = [NoTx EXCEPT !.table = tx.table, !.hdr = tx.hdr]
    /\ stmts' = stmts \o <<Stmt("commit", tx.table, 0, TRUE)>>
    /\ fileIdx' = fileIdx + 1
    /\ pc' = "load"
    /\ UNCHANGED <<call, metadata, inputExists, output, result, tables, created,
                   indexes, idxPos, log>>

\* tx.Commit fails
LoadCommitError ==
    /\ pc = "loading"
    /\ Rollback(<<>>, "commit failed")
    /\ stmts' = stmts \o <<Stmt("commit", tx.table, 0, FALSE)>>
    /\ UNCHANGED <<call, metadata, inputExists, output, tables, created, fileIdx,
                   indexes, idxPos, log>>

\* loadAllCSVs returns nil
LoadDone ==
    /\ pc = "load"
    /\ fileIdx > Len(Files)
    /\ pc' = "index"
    /\ UNCHANGED <<call, metadata, inputExists, output, result, tables, created, db, tx, fileIdx,
                   indexes, idxPos, log, stmts>>


-----------------------------------------------------------------------------
(* deduplicateParents: one step per index statement *)

RECURSIVE IndexTargets(_)
\* the table and the columns the engine reads in each statement
IndexTargets(statements) ==
    IF Len(statements) = 0 THEN <<>>
    ELSE <<parseUniqueIndex(statements[1])>> \o IndexTargets(Tail(statements))

indexTargets == IndexTargets(createIndexes)

\* the engine's verdict on the i-th statement as the database stands
IndexFails(d, idxs, i) ==
    CreateIndexFails(d, tables, created, idxs, createIndexes[i][2].s,
                     indexTargets[i].table, indexTargets[i].columns)

CreateIndex(t, ok) == Stmt("create_index", t, 0, ok)

RECURSIVE SucceedingRun(_, _, _)
\* how many statements from position i on succeed at their first attempt,
\* one after the other
SucceedingRun(d, idxs, i) ==
    IF i > Len(createIndexes) \/ IndexFails(d, idxs, i) THEN 0
    ELSE 1 + SucceedingRun(d, idxs \cup {createIndexes[i][2].s}, i + 1)

\* first attempts that succeed: the loop continues up to the next statement
\* whose creation fails, or to the end of the list
IndexCreated ==
    /\ pc = "index"
    /\ idxPos <= Len(createIndexes)
    /\ \E n \in {SucceedingRun(db, indexes, idxPos)} :
           /\ n > 0
           /\ indexes' = indexes \cup {createIndexes[idxPos + k][2].s : k \in 0..(n - 1)}
           /\ stmts' = stmts \o [k \in 1..n |->
                 CreateIndex(indexTargets[idxPos + k - 1].table, TRUE)]
           /\ idxPos' = idxPos + n
    /\ UNCHANGED <<call, metadata, inputExists, output, pc, result, tables, created, db, tx,
                   fileIdx, log>>

\* the statements and log records of the first n deletions of the pass
DeleteStmts(dels, n, failed) ==
    [i \in 1..n |-> Stmt("delete", dels[i].table, dels[i].rowid, i < n \/ ~failed)]

\* the first attempt fails, the duplicate pass runs to its end and the retry
\* succeeds
IndexRepaired ==
    /\ pc = "index"
    /\ idxPos <= Len(createIndexes)
    /\ LET stmt == createIndexes[idxPos]
           tgt  == parseUniqueIndex(stmt)
       IN  /\ IndexFails(db, indexes, idxPos)
           /\ tgt.ok
           /\ TableHasColumns(tables, created, tgt.table, tgt.columns)
           /\ LET idx  == ColumnPositions(tables, tgt.table, tgt.columns)
                  keys == DuplicateKeys(Rows(db, tgt.table), idx)
                  dels == DedupDeletions(db, tgt.table, idx, keys)
                  d2   == DeleteRows(db, dels)
              IN  /\ ~IndexFails(d2, indexes, idxPos)
                  /\ db' = d2
                  /\ log' = log \o DupLogs(dels, Len(dels))
                  /\ stmts' = stmts
                       \o <<CreateIndex(tgt.table, FALSE),
                            Stmt("select_duplicates", tgt.table, 0, TRUE)>>
                       \o DeleteStmts(dels, Len(dels), FALSE)
                       \o <<CreateIndex(tgt.table, TRUE)>>
                  /\ indexes' = indexes \cup {stmt[2].s}
    /\ idxPos' = idxPos + 1
    /\ UNCHANGED <<call, metadata, inputExists, output, pc, result, tables, created, tx,
                   fileIdx>>

\* the first attempt fails and the statement cannot be parsed, or the
\* duplicate query fails
IndexQueryError ==
    /\ pc = "index"
    /\ idxPos <= Len(createIndexes)
    /\ LET stmt == createIndexes[idxPos]
           tgt  == parseUniqueIndex(stmt)
       IN  /\ IndexFails(db, indexes, idxPos)
           /\ IF ~tgt.ok
              THEN /\ stmts' = stmts \o <<CreateIndex(tgt.table, FALSE)>>
                   /\ Return(Error("deduplicate parents: create index", stmt[2].s))
              ELSE /\ stmts' = stmts
                        \o <<CreateIndex(tgt.table, FALSE),
                             Stmt("select_duplicates", tgt.table, 0, FALSE)>>
                   /\ Return(Error("deduplicate parents: find duplicates", tgt.table))
    /\ UNCHANGED <<call, metadata, inputExists, output, tables, created, db, tx, fileIdx,
                   indexes, idxPos, log>>

\* the first attempt fails and the n-th DELETE of the pass fails, after its
\* log record was written
IndexDeleteError ==
    /\ pc = "index"
    /\ idxPos <= Len(createIndexes)
    /\ LET stmt == createIndexes[idxPos]
           tgt  == parseUniqueIndex(stmt)
       IN  /\ IndexFails(db, indexes, idxPos)
           /\ tgt.ok
           /\ TableHasColumns(tables, created, tgt.table, tgt.columns)
           /\ LET idx  == ColumnPositions(tables, tgt.table, tgt.columns)
                  keys == DuplicateKeys(Rows(db, tgt.table), idx)
                  dels == DedupDeletions(db, tgt.table, idx, keys)
              IN  \E n \in 1..Len(dels) :
                   /\ db' = DeleteRows(db, Prefix(dels, n - 1))
                   /\ log' = log \o DupLogs(dels, n)
                   /\ stmts' = stmts
                        \o <<CreateIndex(tgt.table, FALSE),
                             Stmt("select_duplicates", tgt.table, 0, TRUE)>>
                        \o DeleteStmts(dels, n, TRUE)
                   /\ Return(Error("deduplicate parents: delete duplicate", tgt.table))
    /\ UNCHANGED <<call, metadata, inputExists, output, tables, created, tx, fileIdx,
                   indexes, idxPos>>

\* the first attempt fails, the pass runs to its end and the retry fails
IndexRetryError ==
    /\ pc = "index"
    /\ idxPos <= Len(createIndexes)
    /\ LET stmt == createIndexes[idxPos]
           tgt  == parseUniqueIndex(stmt)
       IN  /\ IndexFails(db, indexes, idxPos)
           /\ tgt.ok
           /\ TableHasColumns(tables, created, tgt.table, tgt.columns)
           /\ LET idx  == ColumnPositions(tables, tgt.table, tgt.columns)
                  keys == DuplicateKeys(Rows(db, tgt.table), idx)
                  dels == DedupDeletions(db, tgt.table, idx, keys)
              IN  /\ db' = DeleteRows(db, dels)
                  /\ log' = log \o DupLogs(dels, Len(dels))
                  /\ stmts' = stmts
                       \o <<CreateIndex(tgt.table, FALSE),
                            Stmt("select_duplicates", tgt.table, 0, TRUE)>>
                       \o DeleteStmts(dels, Len(dels), FALSE)
                       \o <<CreateIndex(tgt.table, FALSE)>>
                  /\ Return(RetryError(stmt[2].s))
    /\ UNCHANGED <<call, metadata, inputExists, output, tables, created, tx, fileIdx,
                   indexes, idxPos>>

\* a run that goes on to the orphan pass behind the first index statement
IndexDoneEarly ==
    /\ pc = "index"
    /\ idxPos > 1
    /\ pc' = "orphans"
    /\ UNCHANGED <<call, metadata, inputExists, output, result, tables, created,
                   db, tx, fileIdx, indexes, idxPos, log, stmts>>

\* deduplicateParents returns nil
IndexDone ==
    /\ pc = "index"
    /\ idxPos > Len(createIndexes)
    /\ pc' = "orphans"
    /\ UNCHANGED <<call, metadata, inputExists, output, result, tables, created, db, tx, fileIdx,
                   indexes, idxPos, log, stmts>>


-----------------------------------------------------------------------------
(* deleteOrphans and the final check *)

FkCheck(ok) == Stmt("foreign_key_check", "", 0, ok)

\* a repair that goes round again while the check reports violations
DeleteOrphansAgain ==
    /\ pc = "orphans"
    /\ LET violations == OrphanVictims(ForeignKeyCheck(db, tables, created))
       IN  /\ db' = DeleteRows(db, violations)
           /\ log' = log \o [i \in 1..Len(violations) |-> OrphanLog(violations[i])]
           /\ stmts' = stmts \o <<FkCheck(TRUE)>>
                             \o DeleteStmts(violations, Len(violations), FALSE)
           /\ pc' = IF violations = <<>> THEN "verify" ELSE "orphans"
    /\ UNCHANGED <<call, metadata, inputExists, output, result, tables, created, tx, fileIdx,
                   indexes, idxPos>>

\* one PRAGMA foreign_key_check, then one DELETE per reported violation
DeleteOrphans ==
    /\ pc = "orphans"
    /\ LET violations == OrphanVictims(ForeignKeyCheck(db, tables, created))
       IN  /\ db' = DeleteRows(db, violations)
           /\ log' = log \o [i \in 1..Len(violations) |-> OrphanLog(violations[i])]
           /\ stmts' = stmts \o <<FkCheck(TRUE)>>
                             \o DeleteStmts(violations, Len(violations), FALSE)
    /\ pc' = "verify"
    /\ UNCHANGED <<call, metadata, inputExists, output, result, tables, created, tx, fileIdx,
                   indexes, idxPos>>

\* the check itself fails: nothing is deleted
OrphanCheckError ==
    /\ pc = "orphans"
    /\ stmts' = stmts \o <<FkCheck(FALSE)>>
    /\ Return(Error("delete orphans: foreign_key_check", ""))
    /\ UNCHANGED <<call, metadata, inputExists, output, tables, created, db, tx, fileIdx,
                   indexes, idxPos, log>>

\* the n-th DELETE fails, after its log record was written
OrphanDeleteError ==
    /\ pc = "orphans"
    /\ LET violations == OrphanVictims(ForeignKeyCheck(db, tables, created))
       IN  \E n \in 1..Len(violations) :
            /\ db' = DeleteRows(db, Prefix(violations, n - 1))
            /\ log' = log \o [i \in 1..n |-> OrphanLog(violations[i])]
            /\ stmts' = stmts \o <<FkCheck(TRUE)>> \o DeleteStmts(violations, n, TRUE)
            /\ Return(Error("delete orphans: delete orphan", violations[n].table))
    /\ UNCHANGED <<call, metadata, inputExists, output, tables, created, tx, fileIdx,
                   indexes, idxPos>>

\* a final check that removes the output when violations remain
FinalCheckRemovesOutput ==
    /\ pc = "verify"
    /\ LET violations == ForeignKeyCheck(db, tables, created)
           fkViolations == Len(violations)
       IN  /\ log' = log \o [i \in 1..fkViolations |-> RemainingLog(violations[i])]
           /\ Return(Verdict(fkViolations))
           /\ output' = IF fkViolations > 0 THEN "absent" ELSE output
    /\ stmts' = stmts \o <<FkCheck(TRUE)>>
    /\ UNCHANGED <<call, metadata, inputExists, tables, created, db, tx, fileIdx,
                   indexes, idxPos>>

\* the final PRAGMA foreign_key_check: every remaining violation is logged
\* and counted, and the count decides the result
FinalCheck ==
    /\ pc = "verify"
    /\ LET violations == ForeignKeyCheck(db, tables, created)
           fkViolations == Len(violations)
       IN  /\ log' = log \o [i \in 1..fkViolations |-> RemainingLog(violations[i])]
           /\ Return(Verdict(fkViolations))
    /\ stmts' = stmts \o <<FkCheck(TRUE)>>
    /\ UNCHANGED <<call, metadata, inputExists, output, tables, created, db, tx, fileIdx,
                   indexes, idxPos>>

\* the final check itself fails
FinalCheckError ==
    /\ pc = "verify"
    /\ stmts' = stmts \o <<FkCheck(FALSE)>>
    /\ Return(Error("final foreign_key_check", ""))
    /\ UNCHANGED <<call, metadata, inputExists, output, tables, created, db, tx, fileIdx,
                   indexes, idxPos, log>>

-----------------------------------------------------------------------------

Next ==
    \/ StatInputError \/ StatOutputError \/ StatOk
    \/ ArchiveError \/ ParseSchemasError \/ ParseSchemas
    \/ PragmaError \/ Pragmas
    \/ CreateTableError \/ CreateTables
    \/ LoadBeginError \/ LoadBegin \/ LoadSkip \/ LoadDone
    \/ LoadCommitError \/ LoadCommit
    \/ LoadFieldCountError \/ LoadInsertError \/ LoadRow
    \/ IndexDone \/ IndexCreated \/ IndexQueryError
    \/ IndexDeleteError \/ IndexRetryError \/ IndexRepaired
    \/ OrphanCheckError \/ OrphanDeleteError \/ DeleteOrphans
    \/ FinalCheckError \/ FinalCheck

Spec == Init /\ [][Next]_vars

\* Extract is one sequential call: a step that can be taken is taken
FairSpec == Spec /\ WF_vars(Next)

\* a function applied on its own leaves Extract where it is
NoExtract ==
    /\ inputExists = FALSE
    /\ output = "absent"
    /\ pc = "stat"
    /\ result = Running
    /\ tables = <<>>
    /\ created = {}
    /\ db = <<>>
    /\ tx = NoTx
    /\ fileIdx = 1
    /\ indexes = {}
    /\ idxPos = 1
    /\ log = <<>>
    /\ stmts = <<>>
    /\ metadata = <<>>

-----------------------------------------------------------------------------
(* Extract called, and called again with the same arguments after it failed *)

\* the call of Extract under way: which one it is, what the destination
\* was when the first began, and what the first left behind
ExtractCall(n, start, first) ==
    [fn |-> "Extract", runs |-> n, start |-> start, first |-> first]

\* what a call of Extract leaves behind: its result, the destination and
\* the database in it, with the statements and the log up to its return
Outcome ==
    [result |-> result, output |-> output, db |-> db, created |-> created,
     indexes |-> indexes, stmts |-> stmts, log |-> log]

RepeatInit ==
    /\ inputExists \in BOOLEAN
    /\ output \in {"absent", "preexisting"}
    /\ pc = "stat"
    /\ result = Running
    /\ tables = <<>>
    /\ created = {}
    /\ db = <<>>
    /\ tx = NoTx
    /\ fileIdx = 1
    /\ indexes = {}
    /\ idxPos = 1
    /\ log = <<>>
    /\ stmts = <<>>
    /\ metadata \in Archives
    /\ call = ExtractCall(1, output, <<>>)

\* the caller repeats Extract(nasrSubscription, sqliteDatabase) at once
\* after an error that left a database at the destination: a new call with
\* its own local variables on the same two paths
ExtractAgain ==
    /\ call.fn = "Extract"
    /\ call.runs = 1
    /\ pc = "done"
    /\ result.status = "error"
    /\ output = "database"
    /\ call' = ExtractCall(2, call.start, Outcome)
    /\ pc' = "stat"
    /\ result' = Running
    /\ tables' = <<>>
    /\ tx' = NoTx
    /\ fileIdx' = 1
    /\ idxPos' = 1
    /\ UNCHANGED <<metadata, inputExists, output, created, db, indexes, log, stmts>>

RepeatNext == Next \/ ExtractAgain

RepeatSpec == RepeatInit /\ [][RepeatNext]_vars

-----------------------------------------------------------------------------
(* convertValue applied to one field, as loadCSV applies it *)

\* the raw field strings explored
FieldStrings == {"", "123.45", "abc", "1", "1.0", "NOT ASSIGNED"}

\* the column definitions explored, of the tables DP_BASE and AWOS
CoercedColumns ==
    {columnDef(n, t, nl) : n \in {"DP_COMPUTER_CODE", "OTHER"},
                           t \in {"TEXT", "REAL", "DATE"},
                           nl \in BOOLEAN}

CoerceInit ==
    /\ NoExtract
    /\ call \in [fn : {"convertValue"}, table : {"DP_BASE", "AWOS"},
                 val : FieldStrings, col : CoercedColumns,
                 done : {FALSE}, ret : {Null}]

\* vals[i] = convertValue(row[i], col)
Convert ==
    /\ call.fn = "convertValue"
    /\ ~call.done
    /\ call' = [call EXCEPT !.ret = convertValue(call.val, call.col),
                            !.done = TRUE]
    /\ UNCHANGED extractVars

CoerceNext == Convert

CoerceSpec == CoerceInit /\ [][CoerceNext]_vars


-----------------------------------------------------------------------------
(* Referential integrity, stated on the rows themselves *)

\* the value row r of table t carries in the column named c
Cell(t, r, c) == r.vals[ColIndex(tables[t], c)]

\* row r of fk's child table matches some row of fk's parent table in d
HasParent(d, fk, r) ==
    \E j \in 1..Len(Rows(d, fk.parentTable)) :
        \A c \in Range(fk.columns) :
            Cell(fk.parentTable, Rows(d, fk.parentTable)[j], c) = Cell(fk.childTable, r, c)

\* row r of fk's child table has a NULL in a key column
Exempt(fk, r) == \E c \in Range(fk.columns) : Cell(fk.childTable, r, c) = Null

Constraints == Range(foreignKeyDefs)

\* the constraints some row of d could violate
LiveConstraints(d) == {fk \in Constraints : fk.childTable \in DOMAIN d}

\* the rowids of fk's child rows that violate fk in d
Orphans(d, fk) ==
    {Rows(d, fk.childTable)[i].rowid : i \in
        {k \in 1..Len(Rows(d, fk.childTable)) :
            /\ ~Exempt(fk, Rows(d, fk.childTable)[k])
            /\ ~HasParent(d, fk, Rows(d, fk.childTable)[k])}}

ReferentialIntegrity(d) == \A fk \in LiveConstraints(d) : Orphans(d, fk) = {}

Rowids(d, t) == {Rows(d, t)[i].rowid : i \in 1..Len(Rows(d, t))}

-----------------------------------------------------------------------------
(* Duplicate repair *)

\* the key of row r of table t on the columns cols
RowKey(t, cols, r) == [i \in 1..Len(cols) |-> Cell(t, r, cols[i])]

\* r keeps its place: its key has a NULL, or no row of the table with the
\* same key has a lower rowid
IsLowestOfKey(d, t, cols, r) ==
    \/ HasNull(RowKey(t, cols, r))
    \/ \A j \in 1..Len(Rows(d, t)) :
          RowKey(t, cols, Rows(d, t)[j]) = RowKey(t, cols, r)
              => r.rowid <= Rows(d, t)[j].rowid

\* this step is a duplicate pass on t that ran to its end: a failed
\* creation attempt on t, the pass, and the retry
DupPassOn(t) ==
    /\ pc = "index"
    /\ Len(stmts') > Len(stmts) + 1
    /\ stmts'[Len(stmts) + 1] = [op |-> "create_index", table |-> t, rowid |-> 0, ok |-> FALSE]
    /\ stmts'[Len(stmts')].op = "create_index"

-----------------------------------------------------------------------------
(* Orphan repair *)

\* this step is a whole orphan pass
OrphanPass == pc = "orphans" /\ pc' = "verify"

\* C3, as claimed: after the orphan pass every row that violated a
\* constraint is gone and that constraint has no violation left, whatever
\* the database held
C3_OrphanPassClearsConstraint ==
    [][OrphanPass =>
          \A fk \in LiveConstraints(db) :
              Orphans(db, fk) # {} =>
                  /\ Orphans(db, fk) \cap Rowids(db', fk.childTable) = {}
                  /\ Orphans(db', fk) = {}]_vars

\* C3, amended: after the orphan pass every row that violated a constraint
\* is gone, and that constraint has no violation left when the pass deleted
\* no row of the constraint's parent table
C3_OrphanPassClearsUnlessParentLostRows ==
    [][OrphanPass =>
          \A fk \in LiveConstraints(db) :
              Orphans(db, fk) # {} =>
                  /\ Orphans(db, fk) \cap Rowids(db', fk.childTable) = {}
                  /\ Rows(db', fk.parentTable) = Rows(db, fk.parentTable)
                        => Orphans(db', fk) = {}]_vars

\* the pass deleted an orphan of the middle of the chain and left its
\* parent table with a row
C3_Witness ==
    /\ pc = "verify"
    /\ \E i \in 1..Len(log) :
          /\ log[i].kind = "orphan"
          /\ log[i].table = "APT_RWY_END"
          /\ log[i].rowid \notin Rowids(db, "APT_RWY_END")
    /\ Rows(db, "APT_RWY") # <<>>


-----------------------------------------------------------------------------
(* Index creation *)

\* the creation attempts made on the index of table t, in order
Attempts(t) == SelectSeq(stmts, LAMBDA s : s.op = "create_index" /\ s.table = t)

\* the positions of the creation attempts among the statements
CreateIndexAt == {j \in 1..Len(stmts) : stmts[j].op = "create_index"}

\* the attempts on the table of the j-th statement before it and after it
EarlierAttempts(j) == {i \in CreateIndexAt : i < j /\ stmts[i].table = stmts[j].table}

LaterAttempts(j) == {i \in CreateIndexAt : i > j /\ stmts[i].table = stmts[j].table}

\* the j-th statement belongs to a duplicate pass: the duplicate query, a
\* DELETE before the constraint check, the retry
InDuplicatePass(j) ==
    \/ stmts[j].op = "select_duplicates"
    \/ stmts[j].op = "create_index" /\ EarlierAttempts(j) # {}
    \/ /\ stmts[j].op = "delete"
       /\ \A i \in 1..(j - 1) : stmts[i].op # "foreign_key_check"

\* the name of the unique index of parent table t
IndexOf(t) ==
    CHOOSE name \in {createIndexes[i][2].s : i \in 1..Len(createIndexes)} :
        \E i \in 1..Len(createIndexes) :
            /\ createIndexes[i][2].s = name
            /\ createIndexes[i][4].s = t

\* C4: an index is attempted at most twice, the second time only after a
\* failed first attempt and its duplicate pass; a failed retry, duplicate
\* query or duplicate deletion is the last statement of the run, which ends
\* with an error naming the index or the table; an index created at the
\* first attempt deletes nothing
C4_IndexAttemptedAtMostTwice ==
    /\ \A j \in CreateIndexAt :
          /\ Cardinality(EarlierAttempts(j)) <= 1
          /\ \A f \in EarlierAttempts(j) :
                /\ ~stmts[f].ok
                /\ stmts[f + 1] = [op |-> "select_duplicates",
                                   table |-> stmts[j].table, rowid |-> 0, ok |-> TRUE]
                /\ \A k \in (f + 2)..(j - 1) :
                      /\ stmts[k].op = "delete"
                      /\ stmts[k].table = stmts[j].table
                      /\ stmts[k].ok
          /\ (~stmts[j].ok /\ EarlierAttempts(j) = {} /\ LaterAttempts(j) = {}) =>
                result.status = "error"
    /\ \A i \in 1..Len(log) :
          log[i].kind = "duplicate" =>
              \E j \in CreateIndexAt :
                  /\ stmts[j].table = log[i].table
                  /\ ~stmts[j].ok
                  /\ EarlierAttempts(j) = {}
    /\ \A j \in 1..Len(stmts) :
          (~stmts[j].ok /\ InDuplicatePass(j)) =>
              /\ j = Len(stmts)
              /\ pc = "done"
              /\ result.status = "error"
              /\ result.subject \in {stmts[j].table, IndexOf(stmts[j].table)}

\* a retry failed after a pass that deleted a duplicate, with index
\* statements still to come
C4_Witness ==
    /\ result.msg = "deduplicate parents: create index after dedup"
    /\ idxPos < Len(createIndexes)
    /\ \E i \in 1..Len(log) : log[i].kind = "duplicate"
    /\ Len(Attempts("APT_RWY")) = 2

-----------------------------------------------------------------------------
(* One orphan pass, one verification *)

\* the positions of the constraint checks among the statements
Checks == {j \in 1..Len(stmts) : stmts[j].op = "foreign_key_check"}

\* the violations of the catalog's constraints in database d
AllOrphans(d) ==
    UNION {{<<fk.childTable, rid>> : rid \in Orphans(d, fk)} : fk \in LiveConstraints(d)}

SinglePass ==
    /\ Cardinality(Checks) <= 2
    /\ \A j \in 1..Len(stmts) :
          (stmts[j].op = "delete" /\ \E c \in Checks : c < j) =>
              /\ \E c \in Checks : c < j /\ \A k \in (c + 1)..j : stmts[k].op = "delete"
              /\ \A c \in Checks : c < j => c = CHOOSE m \in Checks : \A n \in Checks : m <= n
    /\ result.status = "ok" =>
          /\ Cardinality(Checks) = 2
          /\ AllOrphans(db) = {}
    /\ result.msg = "foreign key check failed" =>
          /\ Cardinality(Checks) = 2
          /\ stmts[Len(stmts)].op = "foreign_key_check"
          /\ result.count = Cardinality(AllOrphans(db))
          /\ result.count > 0
    /\ (pc = "done" /\ Cardinality(Checks) = 2) =>
          result.msg \in {"", "foreign key check failed", "final foreign_key_check"}

-----------------------------------------------------------------------------
(* What the repair may touch *)

\* the rows of t after the step are rows of t before it, in their order
OnlyDeletes(t) ==
    Rows(db', t) = SelectSeq(Rows(db, t), LAMBDA r : r.rowid \in Rowids(db', t))

\* the rowids of t the step removed
Deleted(t) == Rowids(db, t) \ Rowids(db', t)

\* a step of the repair phase and what it may do to the database
RepairStep ==
    pc \in {"index", "orphans"} =>
        /\ DOMAIN db' = DOMAIN db
        /\ \A t \in DOMAIN db :
              /\ OnlyDeletes(t)
              /\ (t \notin CatalogTables) => (db'[t] = db[t])
              /\ (pc = "index" /\ Deleted(t) # {}) =>
                    /\ t \in ParentTables
                    /\ Len(stmts') > Len(stmts)
                    /\ stmts'[Len(stmts) + 1] =
                          [op |-> "create_index", table |-> t, rowid |-> 0, ok |-> FALSE]
              /\ (pc = "orphans" /\ Deleted(t) # {}) =>
                    \E fk \in Constraints :
                        /\ fk.childTable = t
                        /\ Deleted(t) \subseteq Orphans(db, fk)

\* C6: a step of the repair phase inserts and updates nothing, leaves every
\* table outside the catalog as it was, and deletes, in duplicate repair,
\* only from the parent table of the index statement that failed and, in
\* orphan repair, only child rows that violate their constraint
C6_RepairOnlyDeletes == [][RepairStep]_vars

\* both repairs deleted rows while a table outside the catalog held one
C6_Witness ==
    /\ pc = "verify"
    /\ Rows(db, "AWOS") # <<>>
    /\ \E i \in 1..Len(log) : log[i].kind = "duplicate"
    /\ \E i \in 1..Len(log) : log[i].kind = "orphan"

-----------------------------------------------------------------------------
(* The log of the repair *)

\* the records of deletions, and the DELETE statements, each in order
DeletionLogs == SelectSeq(log, LAMBDA l : l.kind \in {"duplicate", "orphan"})

Deletes == SelectSeq(stmts, LAMBDA s : s.op = "delete")

\* the rows committed to t by its load
Committed(t) ==
    IF \E j \in 1..Len(stmts) : stmts[j].op = "commit" /\ stmts[j].table = t /\ stmts[j].ok
    THEN Len(SelectSeq(stmts, LAMBDA s : s.op = "insert" /\ s.table = t /\ s.ok))
    ELSE 0

-----------------------------------------------------------------------------
(* Preconditions *)

\* C8: without the input file, or with the output path taken, Extract
\* returns its error at once: no statement is executed, no table and no row
\* exists, the output path is as it was; and a missing input is reported
\* even when the output path is taken
C8_PreconditionFailureWritesNothing ==
    /\ (~inputExists /\ pc # "stat") =>
          pc = "done" /\ result = Error("input file", "input")
    /\ (inputExists /\ output = "preexisting" /\ pc # "stat") =>
          pc = "done" /\ result = Error("output file already exists", "output")
    /\ result.msg \in {"input file", "output file already exists"} =>
          /\ stmts = <<>>
          /\ db = <<>>
          /\ created = {}
          /\ indexes = {}
          /\ ~tx.active
          /\ output \in {"absent", "preexisting"}
    /\ output = "preexisting" => stmts = <<>>

\* both preconditions fail and the run has returned
C8_Witness ==
    /\ ~inputExists
    /\ output = "preexisting"
    /\ pc = "done"

-----------------------------------------------------------------------------
(* Loading *)

\* a step of loadCSV and what it may do to the database
LoadStep ==
    pc = "loading" =>
        /\ (pc' = "load") =>
              /\ Rows(db', tx.table) = AppendRows(Rows(db, tx.table), tx.rows)
              /\ Len(Rows(db', tx.table)) = Len(Rows(db, tx.table)) + Len(tx.rows)
              /\ \A t \in (DOMAIN db \cup DOMAIN db') \ {tx.table} :
                    Rows(db', t) = Rows(db, t)
        /\ (pc' = "done") => (db' = db)
        /\ (pc' = "loading") => (db' = db)

\* C9: a load that returns nil adds one row per data record read to its
\* table and nothing to any other; a load that returns an error, at whatever
\* record, leaves every table as it was before the load began
C9_LoadAllOrNothing == [][LoadStep]_vars

\* the second record of APT_RWY fails after the first was inserted and after
\* APT_BASE was committed
C9_Witness ==
    /\ pc = "done"
    /\ result.status = "error"
    /\ result.subject = "APT_RWY"
    /\ Len(stmts) > 2
    /\ stmts[Len(stmts)].op = "rollback"
    /\ stmts[Len(stmts) - 1] = [op |-> "insert", table |-> "APT_RWY", rowid |-> 0, ok |-> TRUE]
    /\ Rows(db, "APT_BASE") # <<>>
    /\ Rows(db, "APT_RWY") = <<>>

\* C10, as claimed: a record with fewer fields than the schema is no error,
\* also when the header of its stream has the full field count
C10_ShortRowIsNoError ==
    ~(/\ tx.row # <<>>
      /\ Len(tx.row) < Len(tables[tx.table])
      /\ tx.hdr = Len(tables[tx.table])
      /\ result = Error("load CSVs: wrong number of fields", tx.table))

-----------------------------------------------------------------------------
(* Extract up to its PRAGMAs, on the metadata streams of an archive *)

\* the nullability fields explored
NullabilityTokens ==
    {<<"Yes">>, <<"yes">>, <<"YES">>, <<"No">>, <<" ", "Yes">>, <<>>}

\* the metadata records explored: two tables with two columns each, a
\* column outside the sentinel-null list with every nullability field, a
\* column of each kind of type field, a record of four fields, a record of
\* six, and one that does not split
MetadataRecords ==
    {Meta(t, c, <<"VARCHAR">>, <<"No">>) :
        t \in {<<"DP_BASE">>, <<" ", "AWOS", " ">>},
        c \in {<<"DP_COMPUTER_CODE">>, <<"LAT", " ", "DECIMAL">>}}
    \cup {Meta(<<"DP_BASE">>, <<"LAT", " ", "DECIMAL">>, <<"VARCHAR">>, n) :
              n \in NullabilityTokens}
    \cup {Meta(<<" ", "AWOS", " ">>, <<"LAT", " ", "DECIMAL">>, ty, <<"Yes">>) :
              ty \in {<<"NUMBER">>, <<"DATE">>}}
    \cup {Record(<<<<"DP_BASE">>, <<"OTHER">>, <<"10">>, <<"VARCHAR">>>>),
          Record(<<<<"DP_BASE">>, <<"OTHER">>, <<"10">>, <<"NUMBER">>,
                   <<"Yes">>, <<"remark">>>>),
          Unsplittable}

RECURSIVE RecordSeqs(_)
\* the record sequences of a stream, up to n records
RecordSeqs(n) ==
    IF n = 0 THEN {<<>>}
    ELSE LET shorter == RecordSeqs(n - 1)
         IN  shorter \cup {Append(rs, r) : rs \in shorter, r \in MetadataRecords}

\* the first metadata stream of the archive: empty, one record, or faulty
FirstStreams ==
    {StructureFile("APT_CSV_DATA_STRUCTURE.csv", "", <<>>),
     StructureFile("APT_CSV_DATA_STRUCTURE.csv", "",
                   <<Meta(<<"DP_BASE">>, <<"OTHER">>, <<"VARCHAR">>, <<"No">>)>>),
     StructureFile("APT_CSV_DATA_STRUCTURE.csv", "read header in", <<>>),
     StructureFile("APT_CSV_DATA_STRUCTURE.csv", "open", <<>>),
     StructureFile("APT_CSV_DATA_STRUCTURE.csv", "read", <<>>)}

\* the second: any explored record sequence, or no header
SecondStreams ==
    {StructureFile("DP_CSV_DATA_STRUCTURE.csv", "", rs) : rs \in RecordSeqs(MaxRecords)}
    \cup {StructureFile("DP_CSV_DATA_STRUCTURE.csv", "read header in", <<>>)}

\* Extract is given an archive and has passed its precondition checks
SchemaInit ==
    /\ inputExists = TRUE
    /\ output = "absent"
    /\ pc = "open"
    /\ result = Running
    /\ tables = <<>>
    /\ created = {}
    /\ db = <<>>
    /\ tx = NoTx
    /\ fileIdx = 1
    /\ indexes = {}
    /\ idxPos = 1
    /\ log = <<>>
    /\ stmts = <<>>
    /\ call = NoCall
    /\ \E f1 \in FirstStreams, f2 \in SecondStreams :
          metadata = <<f1, OtherFile("DP_BASE.csv"), f2>>

\* Extract up to the opening of the output database
SchemaNext ==
    \/ ArchiveError \/ ParseSchemasError \/ ParseSchemas
    \/ PragmaError \/ Pragmas

SchemaSpec == SchemaInit /\ [][SchemaNext]_vars

-----------------------------------------------------------------------------
(* generateDDL called twice on a schema set and a catalog *)

\* constraints of small catalogs: two children of one parent key, and two
\* constraints of one child on one parent with the columns in either order
ConstraintPool ==
    {FK("APT_RWY", <<"SITE_NO">>, "APT_BASE"),
     FK("APT_ATT", <<"SITE_NO">>, "APT_BASE"),
     FK("APT_RWY_END", <<"SITE_NO", "RWY_ID">>, "APT_RWY"),
     FK("APT_RWY_END", <<"RWY_ID", "SITE_NO">>, "APT_RWY")}

RECURSIVE CatalogsUpTo(_)
\* the catalogs of up to n constraints of the pool
CatalogsUpTo(n) ==
    IF n = 0 THEN {<<>>}
    ELSE LET shorter == CatalogsUpTo(n - 1)
         IN  shorter \cup {Append(fks, fk) : fks \in shorter, fk \in ConstraintPool}

\* catalogs of two parent keys whose parts, joined by "_", read the same:
\* two parents of which one's name begins the other's, and one parent with
\* a column named like two others joined
UnderscoreCatalogs ==
    {<<FK("APT_ARS", <<"END_ID">>, "APT_RWY"),
       FK("APT_ARS", <<"ID">>, "APT_RWY_END")>>,
     <<FK("APT_RWY_END", <<"SITE_NO", "RWY_ID">>, "APT_RWY"),
       FK("APT_ARS", <<"SITE_NO_RWY_ID">>, "APT_RWY")>>}

\* the catalogs explored: the small ones, the built-in one and those whose
\* names hold "_" at the joints
Catalogs ==
    CatalogsUpTo(MaxConstraints) \cup {foreignKeyDefs} \cup UnderscoreCatalogs

\* the schema sets explored: none, one, two and three tables with columns
\* of either type and nullability, and a metadata set of the archive
SchemaSets ==
    LET base == <<columnDef("SITE_NO", "TEXT", FALSE),
                  columnDef("LAT_DECIMAL", "REAL", TRUE)>>
        rwy  == <<columnDef("SITE_NO", "TEXT", FALSE),
                  columnDef("RWY_ID", "TEXT", FALSE)>>
        ends == <<columnDef("SITE_NO", "TEXT", TRUE),
                  columnDef("RWY_ID", "TEXT", FALSE),
                  columnDef("RWY_END_ID", "TEXT", TRUE)>>
    IN  {<<>>,
         "APT_RWY_END" :> ends,
         ("APT_RWY" :> rwy) @@ ("APT_BASE" :> base),
         ("APT_RWY_END" :> ends) @@ ("APT_RWY" :> rwy) @@ ("APT_BASE" :> base),
         parseSchemas(Archive({}, FALSE)).tables}

\* the orders in which `range tables` may hand out the names: every order
\* of up to three names, two orders of more
IterationOrders(tbls) ==
    LET n == Cardinality(DOMAIN tbls)
    IN  IF n <= 3
        THEN {p \in [1..n -> DOMAIN tbls] :
                 \A i, j \in 1..n : i # j => p[i] # p[j]}
        ELSE {MapKeys(tbls),
              [i \in 1..n |-> MapKeys(tbls)[n + 1 - i]]}

NoDDL == [createTables |-> <<>>, createIndexes |-> <<>>]

DDLInit ==
    /\ NoExtract
    /\ call \in [fn : {"generateDDL"}, tables : SchemaSets, fks : Catalogs,
                 calls : {0}, first : {NoDDL}, second : {NoDDL}]

\* createTables, createIndexes := generateDDL(tables, fks), the first time
GenerateFirst ==
    /\ call.fn = "generateDDL"
    /\ call.calls = 0
    /\ \E names \in IterationOrders(call.tables) :
          call' = [call EXCEPT !.first = generateDDLOver(names, call.tables, call.fks),
                               !.calls = 1]
    /\ UNCHANGED extractVars

\* and the second time
GenerateSecond ==
    /\ call.fn = "generateDDL"
    /\ call.calls = 1
    /\ \E names \in IterationOrders(call.tables) :
          call' = [call EXCEPT !.second = generateDDLOver(names, call.tables, call.fks),
                               !.calls = 2]
    /\ UNCHANGED extractVars

DDLNext == GenerateFirst \/ GenerateSecond

DDLSpec == DDLInit /\ [][DDLNext]_vars

-----------------------------------------------------------------------------
(* normalizeCR applied to a stream's bytes, and to its own result *)

\* the bytes told apart: carriage return, line feed and two others
Bytes == {"\r", "\n", ",", "A"}

\* the byte sequences explored
ByteSeqs == UNION {[1..n -> Bytes] : n \in 0..MaxBytes}

RECURSIVE normalizeCRFrom(_, _)
\* the loop of normalizeCR from index i on (i counted from 1): what it
\* writes to buf
normalizeCRFrom(data, i) ==
    IF i > Len(data) THEN <<>>
    ELSE IF data[i] = "\r"
         THEN IF i + 1 <= Len(data) /\ data[i + 1] = "\n"
              THEN <<"\r", "\n">> \o normalizeCRFrom(data, i + 2)
              ELSE <<"\n">> \o normalizeCRFrom(data, i + 1)
         ELSE <<data[i]>> \o normalizeCRFrom(data, i + 1)

\* a replacement that does not look at the byte behind a carriage return
normalizeCREvery(data) ==
    [i \in 1..Len(data) |-> IF data[i] = "\r" THEN "\n" ELSE data[i]]

\* normalizeCR: a carriage return not followed by a line feed becomes a
\* line feed
normalizeCR(data) == normalizeCRFrom(data, 1)

NormInit ==
    /\ NoExtract
    /\ call \in [fn : {"normalizeCR"}, data : ByteSeqs, calls : {0},
                 once : {<<>>}, twice : {<<>>}]

\* raw = normalizeCR(raw)
Normalize ==
    /\ call.fn = "normalizeCR"
    /\ call.calls = 0
    /\ call' = [call EXCEPT !.once = normalizeCR(call.data), !.calls = 1]
    /\ UNCHANGED extractVars

\* normalizeCR applied to what it returned
NormalizeAgain ==
    /\ call.fn = "normalizeCR"
    /\ call.calls = 1
    /\ call' = [call EXCEPT !.twice = normalizeCR(call.once), !.calls = 2]
    /\ UNCHANGED extractVars

NormNext == Normalize \/ NormalizeAgain

NormSpec == NormInit /\ [][NormNext]_vars

-----------------------------------------------------------------------------
(* C11: value coercion, case by case *)

\* the strings strconv.ParseFloat accepts, with their value in hundredths
Numerals == {<<"123.45", 12345>>, <<"1", 100>>, <<"1.0", 100>>}

\* the value the cases of the coercion rule give for a field and a column
Coerced(v, c) ==
    IF v = "" THEN IF c.nullable THEN Null ELSE Text("")
    ELSE IF c.dataType = "REAL" /\ \E n \in Numerals : n[1] = v
         THEN Real((CHOOSE n \in Numerals : n[1] = v)[2])
         ELSE Text(v)

-----------------------------------------------------------------------------
(* C12: the sentinel string of a listed column *)

\* C12: "NOT ASSIGNED" coerced for a column of the sentinel-null list gives
\* NULL even when the column definition says nullable = false, and for any
\* other column gives the string "NOT ASSIGNED" unchanged
C12_SentinelBecomesNull ==
    (call.fn = "convertValue" /\ call.done /\ call.val = "NOT ASSIGNED") =>
        IF <<call.table, call.col.name>> \in sentinelNulls
        THEN call.ret = Null
        ELSE call.ret = Text("NOT ASSIGNED")

-----------------------------------------------------------------------------
(* C13: the column types parseSchemas emits *)

RECURSIVE MetadataOf(_)
\* the data records of the archive's metadata streams, in archive order
MetadataOf(files) ==
    IF Len(files) = 0 THEN <<>>
    ELSE (IF files[1].structure THEN files[1].records ELSE <<>>)
         \o MetadataOf(Tail(files))

\* the records of at least 5 fields that name table t, in that order
ColumnRecords(files, t) ==
    SelectSeq(MetadataOf(files),
              LAMBDA r : /\ r.split
                         /\ Len(r.fields) >= 5
                         /\ String(TrimSpace(r.fields[1])) = t)

\* the type field of a record, surrounding white space removed
TypeToken(r) == String(TrimSpace(r.fields[4]))

\* parseSchemas has returned schemas
SchemasReturned ==
    /\ pc \notin {"stat", "open"}
    /\ result.msg \notin {"input file", "output file already exists",
                          "open inner CSV zip", "parse schemas"}

\* every record of at least 5 fields has its column, in record order, with
\* TEXT for VARCHAR, REAL for NUMBER and the type field itself otherwise
TypePerRecord ==
    /\ \A i \in 1..Len(MetadataOf(metadata)) :
          LET r == MetadataOf(metadata)[i]
          IN  Len(r.fields) >= 5 =>
                 String(TrimSpace(r.fields[1])) \in DOMAIN tables
    /\ \A t \in DOMAIN tables :
          LET rs == ColumnRecords(metadata, t)
              cs == tables[t]
          IN  /\ Len(cs) = Len(rs)
              /\ \A i \in 1..Len(rs) :
                    cs[i].dataType =
                        IF TypeToken(rs[i]) = "VARCHAR" THEN "TEXT"
                        ELSE IF TypeToken(rs[i]) = "NUMBER" THEN "REAL"
                        ELSE TypeToken(rs[i])

\* the dataType values of the schemas returned
DataTypes ==
    UNION {{tables[t][i].dataType : i \in 1..Len(tables[t])} :
              t \in DOMAIN tables}

\* the type fields of the records of at least 5 fields
TypeTokens ==
    {TypeToken(MetadataOf(metadata)[i]) :
        i \in {j \in 1..Len(MetadataOf(metadata)) :
                  Len(MetadataOf(metadata)[j].fields) >= 5}}

-----------------------------------------------------------------------------
(* C14: one statement per schema and per parent key *)

\* the distinct (parentTable, ordered column list) pairs of a catalog
ParentKeys(fks) == {<<fks[i].parentTable, fks[i].columns>> : i \in 1..Len(fks)}

\* the (table, columns) pair an index statement is on
IndexedKey(stmt) ==
    <<parseUniqueIndex(stmt).table, parseUniqueIndex(stmt).columns>>

\* C14: generateDDL returns exactly one CREATE TABLE statement per schema
\* and exactly one CREATE UNIQUE INDEX statement per distinct (parentTable,
\* ordered column list) pair of the catalog, however many children use the
\* pair; the built-in catalog of 38 constraints gives 18 index statements
C14_OneStatementEach ==
    (call.fn = "generateDDL" /\ call.calls >= 1) =>
        LET ct == call.first.createTables
            ci == call.first.createIndexes
        IN  /\ Len(ct) = Cardinality(DOMAIN call.tables)
            /\ \A t \in DOMAIN call.tables :
                  Cardinality({i \in 1..Len(ct) :
                      ct[i].table = t /\ ct[i].text[2] = Quoted(t)}) = 1
            /\ Len(ci) = Cardinality(ParentKeys(call.fks))
            /\ \A k \in ParentKeys(call.fks) :
                  Cardinality({i \in 1..Len(ci) : IndexedKey(ci[i]) = k}) = 1
            /\ call.fks = foreignKeyDefs => Len(call.fks) = 38 /\ Len(ci) = 18

\* generateDDL ran on three schemas and a catalog in which two children
\* reference one parent key
C14_Witness ==
    /\ call.fn = "generateDDL" /\ call.calls >= 1
    /\ Cardinality(DOMAIN call.tables) = 3
    /\ Len(call.fks) = 2
    /\ call.fks[1] # call.fks[2]
    /\ Cardinality(ParentKeys(call.fks)) = 1
    /\ Len(call.first.createIndexes) = 1

-----------------------------------------------------------------------------
(* C15: generateDDL is deterministic and ordered *)

\* the table statements are in ascending order of table name
TablesAscending(ct) ==
    \A i, j \in 1..Len(ct) :
        i < j => NameRank(ct[i].table) < NameRank(ct[j].table)

\* the index statements are in ascending order of parent table name
IndexesAscending(ci) ==
    \A i, j \in 1..Len(ci) :
        i < j => NameRank(parseUniqueIndex(ci[i]).table)
                    <= NameRank(parseUniqueIndex(ci[j]).table)

\* C15: two calls of generateDDL with the same schema set and catalog
\* return the same statements in the same order with the same index names,
\* whatever order the map hands out its names in; the table statements
\* ascend by table name and the index statements by parent table name
C15_Deterministic ==
    (call.fn = "generateDDL" /\ call.calls = 2) =>
        /\ call.first = call.second
        /\ TablesAscending(call.first.createTables)
        /\ TablesAscending(call.second.createTables)
        /\ IndexesAscending(call.first.createIndexes)
        /\ IndexesAscending(call.second.createIndexes)

\* generateDDL ran twice on three schemas and a catalog whose constraints
\* stand in descending order of parent
C15_Witness ==
    /\ call.fn = "generateDDL" /\ call.calls = 2
    /\ Cardinality(DOMAIN call.tables) = 3
    /\ Len(call.fks) = 2
    /\ NameRank(call.fks[1].parentTable) > NameRank(call.fks[2].parentTable)
    /\ Len(call.second.createIndexes) = 2

-----------------------------------------------------------------------------
(* C16: the error policy for metadata *)

\* the metadata streams parseSchemas cannot read to their end: one that does
\* not open or read, has no header, or holds a record that does not split
Offending ==
    {i \in 1..Len(metadata) :
        /\ metadata[i].structure
        /\ \/ metadata[i].fault # ""
           \/ \E k \in 1..Len(metadata[i].records) : ~metadata[i].records[k].split}

\* the first of them in archive order
FirstOffending == CHOOSE i \in Offending : \A j \in Offending : i <= j

\* the records of fewer than 5 fields
ShortRecords ==
    {i \in 1..Len(MetadataOf(metadata)) :
        /\ MetadataOf(metadata)[i].split
        /\ Len(MetadataOf(metadata)[i].fields) < 5}

\* Extract has called parseSchemas
ParseSchemasCalled ==
    /\ pc \notin {"stat", "open"}
    /\ result.msg \notin {"input file", "output file already exists",
                          "open inner CSV zip"}

\* C16: a metadata record of fewer than 5 fields adds no column and raises
\* no error; a header that cannot be read or a record that does not split
\* makes parseSchemas return an error that names the stream and no schema,
\* and Extract then ends before the output database is opened or any
\* statement is executed
C16_MetadataErrorPolicy ==
    /\ SchemasReturned =>
          /\ Offending = {}
          /\ \A t \in DOMAIN tables :
                /\ Len(tables[t]) > 0
                /\ Len(tables[t]) = Len(ColumnRecords(metadata, t))
          /\ \A i \in 1..Len(MetadataOf(metadata)) \ ShortRecords :
                String(TrimSpace(MetadataOf(metadata)[i].fields[1]))
                    \in DOMAIN tables
    /\ ParseSchemasCalled => (Offending # {} <=> result.msg = "parse schemas")
    /\ result.msg = "parse schemas" =>
          /\ pc = "done"
          /\ result = Error("parse schemas", metadata[FirstOffending].name)
          /\ tables = <<>>
          /\ stmts = <<>>
          /\ output = "absent"
          /\ created = {} /\ db = <<>>

\* Extract has failed on a record of the second stream that does not split,
\* behind a record of the first stream and a record of four fields
C16_Witness ==
    /\ result = Error("parse schemas", "DP_CSV_DATA_STRUCTURE.csv")
    /\ Len(metadata[1].records) = 1
    /\ Len(metadata[3].records) = 2
    /\ metadata[3].records[1].split
    /\ Len(metadata[3].records[1].fields) = 4
    /\ ~metadata[3].records[2].split

-----------------------------------------------------------------------------
(* C17: nullability from the metadata and the sentinel override *)

\* the column of table t that came from its i-th record matches the record
\* in name and position, and is nullable exactly when it is in the sentinel
\* list or yes(field) holds of the record's nullability field
NullabilityBy(yes(_)) ==
    \A t \in DOMAIN tables :
        LET rs == ColumnRecords(metadata, t)
        IN  /\ Len(tables[t]) = Len(rs)
            /\ \A i \in 1..Len(rs) :
                  /\ tables[t][i].name =
                        String(ReplaceSpaces(TrimSpace(rs[i].fields[2])))
                  /\ tables[t][i].nullable <=>
                        \/ <<t, tables[t][i].name>> \in sentinelNulls
                        \/ yes(rs[i].fields[5])

\* the field is "Yes" as it stands
IsYes(field) == String(field) = "Yes"

\* the field is "Yes" once the white space around it is removed
IsYesTrimmed(field) ==
    \E i, j \in 1..Len(field) :
        /\ i <= j
        /\ String(SubSeq(field, i, j)) = "Yes"
        /\ \A k \in 1..Len(field) : (k < i \/ k > j) => field[k] \in WhiteSpace

\* C17 as claimed: a column is nullable exactly when its nullability field
\* is exactly "Yes" (" Yes", "yes", "YES", "No" and the empty field give
\* false), except that every listed (table, column) is nullable whatever
\* its field; the override changes nothing else
C17_NullableIffExactlyYes ==
    SchemasReturned => TypePerRecord /\ NullabilityBy(IsYes)

\* C17 as amended: a column is nullable exactly when its nullability field
\* is "Yes" once the white space around it is removed (" Yes" gives true;
\* "yes", "YES", "No" and the empty field give false), except that every
\* listed (table, column) is nullable whatever its field; the override
\* changes nothing else
C17_NullableIffTrimmedYes ==
    SchemasReturned => TypePerRecord /\ NullabilityBy(IsYesTrimmed)

\* DP_BASE was described with DP_COMPUTER_CODE and another column, both "No"
C17_Witness ==
    /\ SchemasReturned
    /\ "DP_BASE" \in DOMAIN tables
    /\ \E i, j \in 1..Len(tables["DP_BASE"]) :
          LET rs == ColumnRecords(metadata, "DP_BASE")
          IN  /\ tables["DP_BASE"][i].name = "DP_COMPUTER_CODE"
              /\ String(rs[i].fields[5]) = "No"
              /\ tables["DP_BASE"][i].nullable
              /\ tables["DP_BASE"][j].name # "DP_COMPUTER_CODE"
              /\ String(rs[j].fields[5]) = "No"
              /\ ~tables["DP_BASE"][j].nullable

-----------------------------------------------------------------------------
(* C18: the order of Extract's phases *)

\* the foreign_key_check statements before position j
ChecksBefore(j) == {k \in 1..(j - 1) : stmts[k].op = "foreign_key_check"}

\* the phase a statement belongs to: 1 knobs, 2 tables, 3 load, 4 indexes
\* and duplicate repair, 5 orphan pass, 6 final verification
Phase(j) ==
    LET op == stmts[j].op
    IN  CASE op \in {"journal_mode", "synchronous"} -> 1
          [] op = "create_table" -> 2
          [] op \in {"begin", "insert", "commit", "rollback"} -> 3
          [] op \in {"create_index", "select_duplicates"} -> 4
          [] op = "delete" -> IF ChecksBefore(j) = {} THEN 4 ELSE 5
          [] op = "foreign_key_check" -> IF ChecksBefore(j) = {} THEN 5 ELSE 6

\* the phase an error of Extract comes from, 0 before the database is opened
ErrorPhase(msg) ==
    CASE msg \in {"input file", "output file already exists",
                  "open inner CSV zip", "parse schemas"} -> 0
      [] msg \in {"set journal_mode", "set synchronous"} -> 1
      [] msg = "create table" -> 2
      [] msg \in {"deduplicate parents: create index",
                  "deduplicate parents: find duplicates",
                  "deduplicate parents: delete duplicate",
                  "deduplicate parents: create index after dedup"} -> 4
      [] msg \in {"delete orphans: foreign_key_check",
                  "delete orphans: delete orphan"} -> 5
      [] msg \in {"final foreign_key_check", "foreign key check failed"} -> 6
      [] OTHER -> 3

\* a first attempt at a unique index that failed and was followed by the
\* duplicate repair: the one failure deduplicateParents does not return
Repaired(j) ==
    /\ stmts[j].op = "create_index"
    /\ j < Len(stmts)
    /\ stmts[j + 1].op = "select_duplicates"

\* the data streams loadAllCSVs loads
Loaded == {Files[i].stem : i \in {k \in 1..Len(Files) : ~Skipped(Files[k])}}

\* the statements of phase p
InPhase(p) == {j \in 1..Len(stmts) : Phase(j) = p}

\* phase p has begun
Begun(p) == \E j \in 1..Len(stmts) : Phase(j) = p

\* the statement has been executed with success
Executed(op, t) == \E j \in 1..Len(stmts) : stmts[j] = Stmt(op, t, 0, TRUE)

PhaseOrder ==
    /\ \A j \in 1..(Len(stmts) - 1) : Phase(j) <= Phase(j + 1)
    /\ \A j \in 1..Len(stmts) :
          (~stmts[j].ok /\ ~Repaired(j)) =>
              /\ result.status = "error"
              /\ Phase(Len(stmts)) = Phase(j)
    /\ Len(stmts) > 2 =>
          /\ stmts[1] = Stmt("journal_mode", "", 0, TRUE)
          /\ stmts[2] = Stmt("synchronous", "", 0, TRUE)
    /\ Begun(3) => \A t \in DOMAIN tables : Executed("create_table", t)
    /\ Begun(4) =>
          /\ ~tx.active
          /\ \A t \in Loaded : Executed("commit", t)
    /\ Begun(5) =>
          /\ indexes = {createIndexes[i][2].s : i \in 1..Len(createIndexes)}
          /\ \A i \in 1..Len(indexTargets) :
                Executed("create_index", indexTargets[i].table)
    /\ Begun(6) => Begun(5)
    /\ result.status = "error" =>
          /\ pc = "done"
          /\ Len(stmts) > 0 => Phase(Len(stmts)) <= ErrorPhase(result.msg)
    /\ result.status = "ok" => pc = "done" /\ Begun(6)

\* C18: Extract runs its phases in a fixed order, each only after the one
\* before succeeded: the knobs before any write, every CREATE TABLE, the
\* load of every data stream, the unique indexes with duplicate repair, the
\* orphan pass, the final verification; no index is attempted before every
\* load has committed, no orphan is deleted before every index exists, and
\* once Extract has returned nothing more happens
C18_PhaseOrder == [](PhaseOrder) /\ [][pc # "done"]_vars

\* Extract returned after its final verification, having repaired
\* duplicates and deleted an orphan
C18_Witness ==
    /\ pc = "done"
    /\ InPhase(6) # {}
    /\ \E j \in InPhase(4) : stmts[j].op = "delete"
    /\ \E j \in InPhase(5) : stmts[j].op = "delete"

-----------------------------------------------------------------------------
(* C19: the layout of a CREATE TABLE statement *)

\* the tokens of a statement between its first line and the closing ");"
ItemTokens(text) == SubSeq(text, 5, Len(text) - 1)

\* the positions of the line ends among the tokens
LineEnds(toks) == {p \in 1..Len(toks) : toks[p] = Bare("\n")}

\* the position of the k-th line end, 0 for k = 0
LineEnd(toks, k) ==
    IF k = 0 THEN 0
    ELSE CHOOSE p \in LineEnds(toks) :
             Cardinality({q \in LineEnds(toks) : q < p}) = k - 1

\* the k-th line of a statement, its line end left out
ItemAt(toks, k) == SubSeq(toks, LineEnd(toks, k - 1) + 1, LineEnd(toks, k) - 1)

HasComma(item) == Len(item) > 0 /\ item[Len(item)] = Bare(",")

\* an item without the comma behind it
Uncomma(item) == IF HasComma(item) THEN SubSeq(item, 1, Len(item) - 1) ELSE item

\* quoted names with a comma between two of them
Listed(cols) ==
    [i \in 1..(IF Len(cols) = 0 THEN 0 ELSE 2 * Len(cols) - 1) |->
        IF i % 2 = 1 THEN Quoted(cols[(i + 1) \div 2]) ELSE Bare(",")]

\* the catalog positions of the constraints whose child is the table
ChildPositions(fks, name) == {i \in 1..Len(fks) : fks[i].childTable = name}

\* the k-th of them in catalog order
ChildConstraint(fks, name, k) ==
    fks[CHOOSE i \in ChildPositions(fks, name) :
            Cardinality({j \in ChildPositions(fks, name) : j < i}) = k - 1]

\* what a column's item says
ColumnClause(col) ==
    <<Quoted(col.name), Bare(col.dataType)>>
    \o (IF col.nullable THEN <<>> ELSE <<Bare("NOT NULL")>>)

\* what a constraint's item says
ForeignKeyClause(fk) ==
    <<Bare("FOREIGN KEY"), Bare("(")>> \o Listed(fk.columns)
    \o <<Bare(")"), Bare("REFERENCES"), Quoted(fk.parentTable), Bare("(")>>
    \o Listed(fk.columns) \o <<Bare(")")>>

\* the statement st lays out the columns cols and the constraints of fks
\* whose child is its table, and nothing else
LaidOut(st, cols, fks) ==
    LET toks  == ItemTokens(st.text)
        ncols == Len(cols)
        nfks  == Cardinality(ChildPositions(fks, st.table))
    IN  /\ Len(st.text) >= 5
        /\ SubSeq(st.text, 1, 4)
             = <<Bare("CREATE TABLE"), Quoted(st.table), Bare("("), Bare("\n")>>
        /\ st.text[Len(st.text)] = Bare(");")
        /\ Len(toks) > 0 => toks[Len(toks)] = Bare("\n")
        /\ Cardinality(LineEnds(toks)) = ncols + nfks
        /\ \A k \in 1..ncols :
              Uncomma(ItemAt(toks, k)) = ColumnClause(cols[k])
        /\ \A k \in 1..nfks :
              Uncomma(ItemAt(toks, ncols + k))
                = ForeignKeyClause(ChildConstraint(fks, st.table, k))
        /\ \A k \in 1..(ncols + nfks) :
              HasComma(ItemAt(toks, k)) <=> k < ncols + nfks

\* C19: every CREATE TABLE statement of generateDDL lists the columns in
\* schema order, each with its type and with NOT NULL exactly when it is
\* not nullable, then one FOREIGN KEY clause for each catalog constraint
\* whose child is the table and for no other, in catalog order, referencing
\* the parent with the same column names in the same order on both sides;
\* a comma follows every item except the last
C19_StatementLayout ==
    (call.fn = "generateDDL" /\ call.calls >= 1) =>
        \A j \in 1..Len(call.first.createTables) :
            LET st == call.first.createTables[j]
            IN  /\ st.table \in DOMAIN call.tables
                /\ LaidOut(st, call.tables[st.table], call.fks)

\* a statement with a nullable and a non-nullable column and two
\* constraints of its table, out of a catalog that also holds a constraint
\* of another child
C19_Witness ==
    /\ call.fn = "generateDDL" /\ call.calls >= 1
    /\ \E j \in 1..Len(call.first.createTables) :
          LET st   == call.first.createTables[j]
              cols == call.tables[st.table]
          IN  /\ \E a, b \in 1..Len(cols) : cols[a].nullable /\ ~cols[b].nullable
              /\ Cardinality(ChildPositions(call.fks, st.table)) = 2
              /\ \E i \in 1..Len(call.fks) : call.fks[i].childTable # st.table

-----------------------------------------------------------------------------
(* C20: line endings *)

\* position i of s holds a carriage return with no line feed right behind
BareCR(s, i) == s[i] = "\r" /\ ~(i < Len(s) /\ s[i + 1] = "\n")

\* C20: for every byte sequence d, normalizeCR(d) has the length of d, holds
\* a line feed wherever d has a carriage return not immediately followed by
\* a line feed and d's byte everywhere else (the two bytes of a CRLF pair
\* included), holds no bare carriage return, and is left as it is by
\* normalizeCR
C20_BareCRBecomesLF ==
    /\ (call.fn = "normalizeCR" /\ call.calls >= 1) =>
          LET d == call.data
              r == call.once
          IN  /\ Len(r) = Len(d)
              /\ \A i \in 1..Len(d) :
                    r[i] = IF BareCR(d, i) THEN "\n" ELSE d[i]
              /\ \A i \in 1..Len(r) : ~BareCR(r, i)
    /\ (call.fn = "normalizeCR" /\ call.calls = 2) => call.twice = call.once

\* normalizeCR has run twice on bytes with a bare carriage return in front
\* of a CRLF pair
C20_Witness ==
    /\ call.fn = "normalizeCR" /\ call.calls = 2
    /\ \E i \in 1..(Len(call.data) - 2) :
          /\ BareCR(call.data, i)
          /\ call.data[i + 1] = "\r"
          /\ call.data[i + 2] = "\n"
    /\ call.once # call.data

-----------------------------------------------------------------------------
(* C21: duplicate repair and the keys of the repaired table *)

\* the distinct key tuples the rows of t carry on the columns cols in d
KeyTuples(d, t, cols) ==
    {RowKey(t, cols, Rows(d, t)[i]) : i \in 1..Len(Rows(d, t))}

\* the rows of fk's child table in d that match a row of its parent table
Matched(d, fk) ==
    {Rows(d, fk.childTable)[i].rowid : i \in
        {k \in 1..Len(Rows(d, fk.childTable)) :
            HasParent(d, fk, Rows(d, fk.childTable)[k])}}

\* a step of deduplicateParents: every table keeps the key tuples of its
\* index, every child row that is left keeps its match, and no row becomes
\* a violation
DedupKeepsKeys ==
    pc = "index" =>
        /\ \A t \in ParentTables \cap DOMAIN db :
              KeyTuples(db', t, KeyColumns(t)) = KeyTuples(db, t, KeyColumns(t))
        /\ \A fk \in LiveConstraints(db) :
              /\ Matched(db, fk) \cap Rowids(db', fk.childTable)
                    \subseteq Matched(db', fk)
              /\ Orphans(db', fk) \subseteq Orphans(db, fk)

\* C21: duplicate repair never creates an orphan: the set of distinct key
\* tuples of a repaired table is the same before and after the duplicate
\* pass, so every child row that matched a parent row before the pass
\* matches one after it
C21_DedupKeepsKeys == [][DedupKeepsKeys]_vars

\* a duplicate of a parent row was deleted and a child row with the
\* duplicate's key still has its parent
C21_Witness ==
    \E i \in 1..Len(log) :
        /\ log[i].kind = "duplicate"
        /\ log[i].rowid \notin Rowids(db, log[i].table)
        /\ \E fk \in LiveConstraints(db) :
              /\ fk.parentTable = log[i].table
              /\ \E k \in 1..Len(Rows(db, fk.childTable)) :
                    LET r == Rows(db, fk.childTable)[k]
                    IN  /\ RowKey(fk.childTable, fk.columns, r) = log[i].key
                        /\ HasParent(db, fk, r)

-----------------------------------------------------------------------------
(* C22: index names and deduplication keys of distinct parent keys *)

\* the constraints at positions i and j are on different (parentTable,
\* columns) pairs
DifferentPairs(fks, i, j) ==
    <<fks[i].parentTable, fks[i].columns>> # <<fks[j].parentTable, fks[j].columns>>

\* the name an index statement gives its index
NameOf(stmt) == stmt[2].s

-----------------------------------------------------------------------------
(* C23: the destination after a failure *)

\* a statement has been executed against the output database with success
StatementExecuted == \E j \in 1..Len(stmts) : stmts[j].ok

\* the first call of Extract has returned an error
FirstCallFailed ==
    call.fn = "Extract" /\ call.runs = 1 /\ pc = "done" /\ result.status = "error"

\* once it has executed a statement Extract leaves the database at the
\* destination, whatever follows; and a second call returns "output file
\* already exists" from its precondition with the destination, the
\* database in it, the statements and the log as the first call left them
OutputKept ==
    /\ StatementExecuted => output = "database"
    /\ (call.fn = "Extract" /\ call.runs = 2) =>
          /\ pc \in {"stat", "done"}
          /\ pc = "done" => result = Error("output file already exists", "output")
          /\ [Outcome EXCEPT !.result = call.first.result] = call.first

\* C23, as claimed: Extract never removes the output it started to build,
\* a repeated Extract fails on "output file already exists" and changes
\* nothing, and when Extract fails before its first statement the
\* destination does not exist afterwards
C23_NoOutputAfterEarlyFailure ==
    /\ OutputKept
    /\ (FirstCallFailed /\ stmts = <<>>) => output = "absent"

\* C23, amended: ... and when Extract fails before its first statement the
\* destination is as it was before the call, absent if it was absent
C23_OutputAsBeforeAfterEarlyFailure ==
    /\ OutputKept
    /\ (FirstCallFailed /\ stmts = <<>>) => output = call.start
    /\ (FirstCallFailed /\ stmts # <<>>) => call.start = "absent"

\* Extract failed at its final verification with rows in the database, was
\* called again and has returned
C23_Witness ==
    /\ call.fn = "Extract" /\ call.runs = 2
    /\ pc = "done"
    /\ call.first.result.msg = "foreign key check failed"
    /\ \E t \in DOMAIN db : Rows(db, t) # <<>>
    /\ output = "database"

====
